---------------------------- MODULE Spec2Model ----------------------------
(***************************************************************************)
(* Fantastic-Films: the project store of App (projects, active project,    *)
(* gallery selection, batch export) with the timeline operations of        *)
(* TimelineEditor, and the frame-capture requests of VideoCard,            *)
(* FrameProcessor and VideoProcessor, and FrameExtender.handleGenerate.    *)
(*                                                                         *)
(* Strings the code inspects character by character (file names, project   *)
(* names) are sequences of one-character strings.  Array indexes given to  *)
(* handlers are 0-based as in the source; sequences here are 1-based.      *)
(* Timestamps of the wall clock are natural numbers (milliseconds);        *)
(* playback positions are in hundredths of a second.                       *)
(*                                                                         *)
(* The specifications share the handlers:                                  *)
(*   Spec          the handlers as the rendered page can invoke them (a    *)
(*                 button that is not rendered or is disabled cannot be    *)
(*                 clicked), the wall clock standing still;                *)
(*   SpecClock     the page with the wall clock running, export aside;     *)
(*   SpecHandlers  the page, export aside, with the controls it withholds  *)
(*                 offered: the calls its handlers accept that no rendered *)
(*                 control makes;                                          *)
(*   SpecEditor    one editing session inside one project, the withheld    *)
(*                 controls of the editor offered, export included;        *)
(*   SpecTimeline  a timeline session in a project just created, with      *)
(*                 longer imports;                                         *)
(*   SpecGallery   a gallery session in a project just created;            *)
(*   SpecCapture   the capture components on a loaded video;               *)
(*   SpecProjects  the page, export aside, with the confirm button of the  *)
(*                 creation modal offered while the name is blank;         *)
(*   SpecRegistry  the videos of one project under the running clock, the  *)
(*                 repeated delete and the boundary moves offered;         *)
(*   SpecDecoder   FrameProcessor and VideoCard on their video elements:   *)
(*                 the decoder's events, the promises waiting for them,    *)
(*                 a change of videoUrl, an unmount, the scrub bar;        *)
(*   SpecDecoderFair  the same, every event the decoder will signal being  *)
(*                 signalled in the end;                                   *)
(*   SpecThumbs    a video card whose thumbnail captures run beside the    *)
(*                 handlers that delete its video or leave its project;    *)
(*   SpecExtender  FrameExtender.handleGenerate beside a gallery session;  *)
(*   SpecOwnership projects created, opened and edited, the handlers of    *)
(*                 the editor also called while no project is open;        *)
(*   SpecSelection the page after a project was left with a frame          *)
(*                 selected;                                               *)
(*   SpecExport    batch export in a gallery session, and SpecExportFair   *)
(*                 the same with the awaited promises settling in the end; *)
(*   SpecRender    a timeline whose render can lag behind the store.       *)
(***************************************************************************)
EXTENDS Integers, Sequences, FiniteSets, TLC

VARIABLES
    projects,            \* App: useState<Project[]>
    activeProjectId,     \* App: useState<string | null>
    currentView,         \* App: 'timeline' | 'gallery'
    selectedGalleryIds,  \* App: useState<Set<string>>
    isZipping,           \* App: useState(false)
    isCreatingProject,   \* App: the creation modal is open
    newProjectName,      \* App: the name typed in the creation modal
    zipJobs,             \* downloadBatchZip calls suspended at an await
    liveUrls,            \* object URLs created and not revoked
    now,                 \* the last value Date.now() returned
    minted,              \* UUIDs crypto.randomUUID() has returned since the initial state
    lastOp,              \* history: the handler that ran last, and how it was called
    capDuration,         \* capture: duration of the loaded video
    capPc,               \* capture: position of each component's extraction
    capSeeks,            \* capture: timestamps each component assigned to currentTime
    frameProcessor,      \* FrameProcessor: its state, its video element, its captures
    videoCard,           \* VideoCard: its state, its temporary and its shown video element
    renders,             \* history: the drawImage calls made, and whether a seek was pending
    frameExtender,       \* FrameExtender: its state and the position of handleGenerate
    timelineEditor       \* TimelineEditor: the props of its last render

appVars == <<projects, activeProjectId, currentView, selectedGalleryIds, isZipping,
             isCreatingProject, newProjectName, zipJobs,
             liveUrls, now, minted, lastOp>>
elemVars == <<frameProcessor, videoCard, renders, frameExtender, timelineEditor>>
capVars == <<capDuration, capPc, capSeeks, frameProcessor, videoCard, renders,
            frameExtender, timelineEditor>>
vars == <<projects, activeProjectId, currentView, selectedGalleryIds, isZipping,
          isCreatingProject, newProjectName, zipJobs,
          liveUrls, now, minted, lastOp, capDuration, capPc, capSeeks,
          frameProcessor, videoCard, renders, frameExtender, timelineEditor>>

----------------------------------------------------------------------------
(* Bounds *)

MaxMinted == 4      \* UUIDs minted after the initial state
MaxProjects == 2    \* projects in the store at one time
MaxVideos == 3      \* videos in one project
MaxGallery == 3     \* gallery items in one project
MaxFiles == 2       \* files in one import on the page
MaxImport == 3      \* files in one import of a timeline session
MaxTime == 1        \* largest clock value
MaxJobs == 2        \* downloadBatchZip calls in flight at one time
MaxDuration == 12   \* largest video duration, in hundredths of a second
MaxSeeks == 3       \* assignments to currentTime one component logs
MaxUrls == 2        \* values of videoUrl FrameProcessor is given

----------------------------------------------------------------------------
(* Values *)

NullId == <<>>               \* null where an id (a string) is expected
Null == [null |-> TRUE]      \* null / undefined where an object is expected
NoCrop == Null               \* VideoItem.crop when unset
\* FileList | null
NullFiles == [null |-> TRUE, items |-> <<>>]
FileList(items) == [null |-> FALSE, items |-> items]

Whitespace == {" ", "\t", "\n"}
Digits == <<"0", "1", "2", "3", "4", "5", "6", "7", "8", "9">>
Lower == <<"a", "b", "c", "d", "e", "f", "g", "h", "i", "j", "k", "l", "m",
           "n", "o", "p", "q", "r", "s", "t", "u", "v", "w", "x", "y", "z">>
Upper == <<"A", "B", "C", "D", "E", "F", "G", "H", "I", "J", "K", "L", "M",
           "N", "O", "P", "Q", "R", "S", "T", "U", "V", "W", "X", "Y", "Z">>

Range(s) == {s[i] : i \in DOMAIN s}

\* Files the user can offer: File.name and File.type (major, minor).
VideoFileA == [name |-> <<"a", ".", "m">>, type |-> <<"video", "mp4">>]
VideoFileB == [name |-> <<"a">>, type |-> <<"video", "webm">>]
ImageFile == [name |-> <<"i", ".", "p">>, type |-> <<"image", "png">>]
Files == {VideoFileA, ImageFile}

RECURSIVE SeqsUpTo(_, _)
SeqsUpTo(S, n) ==
    IF n = 0 THEN {<<>>}
    ELSE LET shorter == SeqsUpTo(S, n - 1)
         IN shorter \cup {Append(s, x) : s \in {t \in shorter : Len(t) = n - 1}, x \in S}

FileLists == {FileList(items) : items \in SeqsUpTo(Files, MaxFiles)}

\* The longer imports of a timeline session, with two kinds of video file.
ImportFiles == {VideoFileA, VideoFileB, ImageFile}
ImportLists == {FileList(items) : items \in SeqsUpTo(ImportFiles, MaxImport)}

GalleryTypes == {"inicio", "final", "manual"}
\* The thumbnails frames are saved from here: Início and Atual.  No handler
\* branches on the type, and Final is saved as Início is.
SavedTypes == {"inicio", "manual"}
\* The first four characters of a UUID; the rest is what makes it unique.
Prefixes == {"aaaa", "bbbb"}

\* Names typed into the creation modal.
TypedNames == {<<" ", " ">>}

\* Partial<VideoItem> values handleUpdateVideo is given.
VideoUpdates == {[name |-> <<"b", ".", "m">>], [crop |-> [scale |-> 2, x |-> 0, y |-> 0]]}

----------------------------------------------------------------------------
(* Pure helpers *)

\* Array.prototype.find with the test i => i.id === id: the first match, or
\* undefined
FindById(s, id) ==
    IF \E i \in DOMAIN s : s[i].id = id
    THEN s[CHOOSE i \in DOMAIN s : s[i].id = id /\ \A j \in 1..(i - 1) : s[j].id # id]
    ELSE Null

\* String.prototype.trim
RECURSIVE TrimLeft(_)
TrimLeft(s) ==
    IF s # <<>> /\ Head(s) \in Whitespace THEN TrimLeft(Tail(s)) ELSE s

RECURSIVE TrimRight(_)
TrimRight(s) ==
    IF s # <<>> /\ s[Len(s)] \in Whitespace THEN TrimRight(SubSeq(s, 1, Len(s) - 1)) ELSE s

Trim(s) == TrimRight(TrimLeft(s))

\* String.prototype.lastIndexOf for one character: 0-based, -1 when absent
LastIndexOf(s, c) ==
    IF \E i \in DOMAIN s : s[i] = c
    THEN (CHOOSE i \in DOMAIN s : s[i] = c /\ \A j \in (i + 1)..Len(s) : s[j] # c) - 1
    ELSE -1

\* String.prototype.substring(0, end): a negative end counts as 0
Substring0(s, end) ==
    LET e == IF end < 0 THEN 0 ELSE IF end > Len(s) THEN Len(s) ELSE end
    IN SubSeq(s, 1, e)

\* videoName.substring(0, videoName.lastIndexOf('.')) || videoName
NameOnly(videoName) ==
    LET cut == Substring0(videoName, LastIndexOf(videoName, "."))
    IN IF cut = <<>> THEN videoName ELSE cut

\* String.prototype.toLowerCase, by character
ToLowerChar(c) ==
    IF \E i \in DOMAIN Upper : Upper[i] = c
    THEN Lower[CHOOSE i \in DOMAIN Upper : Upper[i] = c]
    ELSE c

\* name.replace(/[^a-z0-9]/gi, '_').toLowerCase()
Alphanumeric == Range(Lower) \cup Range(Upper) \cup Range(Digits)

FolderName(name) ==
    [i \in DOMAIN name |->
        IF name[i] \in Alphanumeric
        THEN ToLowerChar(name[i])
        ELSE "_"]

\* file.type.startsWith('video/')
IsVideoType(type) == type[1] = "video"

\* `Projeto Sem Título ${projects.length + 1}`
DefaultProjectName(length) ==
    <<"P", "r", "o", "j", "e", "t", "o", " ", "S", "e", "m", " ",
      "T", "í", "t", "u", "l", "o", " ", Digits[(length + 1) + 1]>>

\* item.id.slice(0, 4)
Slice4(id) == id[1]

\* The project with this id, or undefined (projects.find(p => p.id === id))
ProjectOf(id) == FindById(projects, id)

\* const activeProject = projects.find(p => p.id === activeProjectId)
ActiveProject == ProjectOf(activeProjectId)

ProjectIds == {projects[i].id : i \in DOMAIN projects}
VideoIds(p) == {p.videos[i].id : i \in DOMAIN p.videos}
VideoUrls(p) == {p.videos[i].url : i \in DOMAIN p.videos}
GalleryIds(p) == {p.galleryItems[i].id : i \in DOMAIN p.galleryItems}
AllGalleryIds == UNION {GalleryIds(projects[i]) : i \in DOMAIN projects}
AllVideoUrls == UNION {VideoUrls(projects[i]) : i \in DOMAIN projects}

\* What the n-th call of crypto.randomUUID() can return: any first four
\* characters, and a remainder no other call returns.
RandomUUIDs(n) == {<<p, n>> : p \in Prefixes}

\* The same for the id of a project or a video, whose characters nothing reads:
\* one representative.
RandomUUID(n) == <<"aaaa", n>>

\* Date.now(): the clock's value.  The clock advances between handlers (Tick);
\* the reads of one handler fall in the same millisecond.
DateNow == now

----------------------------------------------------------------------------
(* Timeline and gallery computations *)

\* One VideoItem per accepted file, in order; the k-th takes the (n + k)-th UUID
\* and a fresh object URL (URL.createObjectURL(file)).
RECURSIVE NewVideoLists(_, _)
NewVideoLists(accepted, n) ==
    IF accepted = <<>> THEN {<<>>}
    ELSE {<<[id |-> id, url |-> <<"blob:", n + 1>>,
             name |-> Head(accepted).name, crop |-> NoCrop]>> \o rest :
            id \in {RandomUUID(n + 1)}, rest \in NewVideoLists(Tail(accepted), n + 1)}

\* Mutation of AcceptedFiles: the filter on the file type is left out.
AcceptedFilesUnfiltered(files) == files

\* Array.from(files).filter(file => file.type.startsWith('video/'))
AcceptedFiles(files) == SelectSeq(files, LAMBDA f : IsVideoType(f.type))

\* [a[i], a[j]] = [a[j], a[i]] on a copy (i, j are 1-based here)
Swap(a, i, j) == [a EXCEPT ![i] = a[j], ![j] = a[i]]

\* Mutation of MoveVideoList: one half of the swap is written, the other is not.
MoveVideoListHalfSwap(videos, index, direction) ==
    IF direction = "left" /\ index > 0
    THEN [videos EXCEPT ![index] = videos[index + 1]]
    ELSE IF direction = "right" /\ index < Len(videos) - 1
         THEN [videos EXCEPT ![index + 2] = videos[index + 1]]
         ELSE videos

\* moveVideo: the list given to setVideos (index is 0-based)
MoveVideoList(videos, index, direction) ==
    IF direction = "left" /\ index > 0
    THEN Swap(videos, index, index + 1)
    ELSE IF direction = "right" /\ index < Len(videos) - 1
         THEN Swap(videos, index + 2, index + 1)
         ELSE videos

\* onDelete: v => v.filter(i => i.id !== video.id)
DeleteVideoList(videos, videoId) == SelectSeq(videos, LAMBDA i : i.id # videoId)

\* { ...v, ...updates }
Merge(v, updates) ==
    [f \in DOMAIN v |-> IF f \in DOMAIN updates THEN updates[f] ELSE v[f]]

\* handleUpdateVideo: prev => prev.map(v => v.id === videoId ? {...v, ...updates} : v)
UpdateVideoList(videos, videoId, updates) ==
    [i \in DOMAIN videos |->
        IF videos[i].id = videoId THEN Merge(videos[i], updates) ELSE videos[i]]

\* Mutation of UpdateActiveProjectVideos: the test on the project id is left
\* out, so every project of the store is given the videos.
UpdateActiveProjectVideosEverywhere(updatedVideos) ==
    [i \in DOMAIN projects |->
        [projects[i] EXCEPT !.videos = updatedVideos,
                            !.lastModified = DateNow]]

\* Mutation of UpdateActiveProjectVideos: the stamp written is the epoch, not the
\* clock's value.
UpdateActiveProjectVideosEpochStamp(updatedVideos) ==
    [i \in DOMAIN projects |->
        IF projects[i].id # activeProjectId THEN projects[i]
        ELSE [projects[i] EXCEPT !.videos = updatedVideos,
                                     !.lastModified = 0]]

\* updateActiveProjectVideos: the value of projects after the updater ran, where
\* updatedVideos is the array given, or what the function given returns for the
\* active project's videos
UpdateActiveProjectVideos(updatedVideos) ==
    [i \in DOMAIN projects |->
        IF projects[i].id # activeProjectId THEN projects[i]
        ELSE [projects[i] EXCEPT !.videos = updatedVideos,
                                     !.lastModified = DateNow]]

\* Mutation of AddToActiveGallery: the new item is put after the existing ones.
AddToActiveGalleryAppends(newItem) ==
    [i \in DOMAIN projects |->
        IF projects[i].id # activeProjectId THEN projects[i]
        ELSE [projects[i] EXCEPT !.galleryItems = @ \o <<newItem>>,
                                     !.lastModified = DateNow]]

\* addToGallery: galleryItems: [newItem, ...proj.galleryItems], lastModified: Date.now()
AddToActiveGallery(newItem) ==
    [i \in DOMAIN projects |->
        IF projects[i].id # activeProjectId THEN projects[i]
        ELSE [projects[i] EXCEPT !.galleryItems = <<newItem>> \o @,
                                     !.lastModified = DateNow]]

\* removeFromGallery: galleryItems.filter(item => item.id !== id)
RemoveFromActiveGallery(id) ==
    [i \in DOMAIN projects |->
        IF projects[i].id # activeProjectId THEN projects[i]
        ELSE [projects[i] EXCEPT
                !.galleryItems = SelectSeq(@, LAMBDA item : item.id # id)]]

\* deleteSelected: galleryItems.filter(item => !selectedGalleryIds.has(item.id))
RemoveSelectedFromActiveGallery ==
    [i \in DOMAIN projects |->
        IF projects[i].id # activeProjectId THEN projects[i]
        ELSE [projects[i] EXCEPT
                !.galleryItems = SelectSeq(@, LAMBDA item : item.id \notin selectedGalleryIds)]]

\* deleteProject: prev.filter(p => p.id !== projectId)
RemoveProject(projectId) == SelectSeq(projects, LAMBDA p : p.id # projectId)

\* deleteProject: the URLs of project?.videos.forEach(v => URL.revokeObjectURL(v.url))
RevokedByDeleteProject(projectId) ==
    IF ProjectOf(projectId) = Null THEN {} ELSE VideoUrls(ProjectOf(projectId))

\* The PNG data URL canvas.toDataURL gives for a frame: header, base64 payload.
\* src.split(',')[1] is the payload.
DataUrl(url, frame) == <<"data:image/png;base64", <<url, frame>>>>

\* `${nameOnly}_${item.type}_${item.id.slice(0,4)}.png`; the type holds no '_' and
\* the slice is four characters, so the parts determine the string and back.
EntryName(item) == <<NameOnly(item.videoName), item.type, Slice4(item.id), ".png">>

\* downloadBatchZip: the names given to folder.file(...), one call per selected id
\* that activeProject.galleryItems.find(...) finds; a name given twice is one entry.
ZipEntries(selected, galleryItems) ==
    {EntryName(FindById(galleryItems, id)) :
        id \in {x \in selected : FindById(galleryItems, x) # Null}}

\* zip.folder(`${folderName}_frames`)
ZipFolder(projectName) == <<FolderName(projectName), "_frames">>

\* link.download = `${folderName}_batch_${Date.now()}.zip`
DownloadName(projectName) == <<FolderName(projectName), "_batch_", DateNow, ".zip">>

----------------------------------------------------------------------------
(* Initial state *)

AppInit ==
    /\ projects = <<>>
    /\ activeProjectId = NullId
    /\ currentView = "timeline"
    /\ selectedGalleryIds = {}
    /\ isZipping = FALSE
    /\ isCreatingProject = FALSE
    /\ newProjectName = <<>>
    /\ zipJobs = <<>>
    /\ liveUrls = {}
    /\ now = 0
    /\ minted = 0
    /\ lastOp = [op |-> "init"]

----------------------------------------------------------------------------
(* App handlers: project management *)

\* handleCreateProjectClick
HandleCreateProjectClick ==
    /\ UNCHANGED capVars
    /\ newProjectName' = DefaultProjectName(Len(projects))
    /\ isCreatingProject' = TRUE
    /\ lastOp' = [op |-> "handleCreateProjectClick"]
    /\ UNCHANGED <<projects, activeProjectId, currentView, selectedGalleryIds, isZipping,
                   zipJobs, liveUrls, now, minted>>

\* onChange={(e) => setNewProjectName(e.target.value)}
SetNewProjectName(name) ==
    /\ UNCHANGED capVars
    /\ newProjectName' = name
    /\ lastOp' = [op |-> "setNewProjectName"]
    /\ UNCHANGED <<projects, activeProjectId, currentView, selectedGalleryIds, isZipping,
                   isCreatingProject, zipJobs, liveUrls, now, minted>>

\* onClick={() => setIsCreatingProject(false)}
CloseCreateModal ==
    /\ UNCHANGED capVars
    /\ isCreatingProject' = FALSE
    /\ lastOp' = [op |-> "closeCreateModal"]
    /\ UNCHANGED <<projects, activeProjectId, currentView, selectedGalleryIds, isZipping,
                   newProjectName, zipJobs, liveUrls, now, minted>>

\* Mutation of ConfirmCreateProject: the view is left as it was.
ConfirmCreateProjectKeepsView ==
    /\ UNCHANGED capVars
    /\ IF Trim(newProjectName) = <<>>
       THEN /\ lastOp' = [op |-> "confirmCreateProject", created |-> FALSE]
            /\ UNCHANGED <<projects, activeProjectId, currentView, selectedGalleryIds,
                           isZipping, isCreatingProject, newProjectName, zipJobs,
                           liveUrls, now, minted>>
       ELSE /\ minted < MaxMinted
            /\ Len(projects) < MaxProjects
            /\ LET id == RandomUUID(minted + 1) IN
                   /\ projects' = <<[id |-> id, name |-> newProjectName,
                                     createdAt |-> DateNow, lastModified |-> DateNow,
                                     videos |-> <<>>, galleryItems |-> <<>>]>> \o projects
                   /\ activeProjectId' = id
                   /\ lastOp' = [op |-> "confirmCreateProject", created |-> TRUE]
            /\ minted' = minted + 1
            /\ isCreatingProject' = FALSE
            /\ UNCHANGED <<currentView, selectedGalleryIds, isZipping, newProjectName,
                           zipJobs, liveUrls, now>>

\* confirmCreateProject
ConfirmCreateProject ==
    /\ UNCHANGED capVars
    /\ IF Trim(newProjectName) = <<>>
       THEN /\ lastOp' = [op |-> "confirmCreateProject", created |-> FALSE]
            /\ UNCHANGED <<projects, activeProjectId, currentView, selectedGalleryIds,
                           isZipping, isCreatingProject, newProjectName, zipJobs,
                           liveUrls, now, minted>>
       ELSE /\ minted < MaxMinted
            /\ Len(projects) < MaxProjects
            /\ LET id == RandomUUID(minted + 1) IN
                   /\ projects' = <<[id |-> id, name |-> newProjectName,
                                     createdAt |-> DateNow, lastModified |-> DateNow,
                                     videos |-> <<>>, galleryItems |-> <<>>]>> \o projects
                   /\ activeProjectId' = id
                   /\ lastOp' = [op |-> "confirmCreateProject", created |-> TRUE]
            /\ minted' = minted + 1
            /\ currentView' = "timeline"
            /\ isCreatingProject' = FALSE
            /\ UNCHANGED <<selectedGalleryIds, isZipping, newProjectName, zipJobs,
                           liveUrls, now>>

\* Mutation of DeleteProject: the active id is left as it was.
DeleteProjectKeepsActive(projectId, confirmed) ==
    /\ UNCHANGED capVars
    /\ lastOp' = [op |-> "deleteProject", id |-> projectId, confirmed |-> confirmed,
                  wasActive |-> activeProjectId]
    /\ IF confirmed
       THEN /\ liveUrls' = liveUrls \ RevokedByDeleteProject(projectId)
            /\ projects' = RemoveProject(projectId)
       ELSE UNCHANGED <<liveUrls, projects>>
    /\ UNCHANGED <<activeProjectId, currentView, selectedGalleryIds, isZipping,
                   isCreatingProject, newProjectName, zipJobs, now, minted>>

\* Mutation of DeleteProject: the active project is closed whichever project is
\* deleted.
DeleteProjectClosesEditor(projectId, confirmed) ==
    /\ UNCHANGED capVars
    /\ lastOp' = [op |-> "deleteProject", id |-> projectId, confirmed |-> confirmed,
                  wasActive |-> activeProjectId]
    /\ IF confirmed
       THEN /\ liveUrls' = liveUrls \ RevokedByDeleteProject(projectId)
            /\ projects' = RemoveProject(projectId)
            /\ activeProjectId' = NullId
       ELSE UNCHANGED <<liveUrls, projects, activeProjectId>>
    /\ UNCHANGED <<currentView, selectedGalleryIds, isZipping, isCreatingProject,
                   newProjectName, zipJobs, now, minted>>

\* deleteProject; confirmed is the answer to confirm(...)
DeleteProject(projectId, confirmed) ==
    /\ UNCHANGED capVars
    /\ lastOp' = [op |-> "deleteProject", id |-> projectId, confirmed |-> confirmed,
                  wasActive |-> activeProjectId]
    /\ IF confirmed
       THEN /\ liveUrls' = liveUrls \ RevokedByDeleteProject(projectId)
            /\ projects' = RemoveProject(projectId)
            /\ activeProjectId' = IF activeProjectId = projectId THEN NullId
                                  ELSE activeProjectId
       ELSE UNCHANGED <<liveUrls, projects, activeProjectId>>
    /\ UNCHANGED <<currentView, selectedGalleryIds, isZipping, isCreatingProject,
                   newProjectName, zipJobs, now, minted>>

\* Mutation of OpenProject: the selection is left as it was.
OpenProjectKeepsSelection(projectId) ==
    /\ UNCHANGED capVars
    /\ activeProjectId' = projectId
    /\ currentView' = "timeline"
    /\ lastOp' = [op |-> "openProject", view |-> currentView,
                  selected |-> Cardinality(selectedGalleryIds)]
    /\ UNCHANGED <<projects, selectedGalleryIds, isZipping, isCreatingProject,
                   newProjectName, zipJobs, liveUrls, now, minted>>

\* openProject
OpenProject(projectId) ==
    /\ UNCHANGED capVars
    /\ activeProjectId' = projectId
    /\ currentView' = "timeline"
    /\ selectedGalleryIds' = {}
    /\ lastOp' = [op |-> "openProject", view |-> currentView,
                  selected |-> Cardinality(selectedGalleryIds)]
    /\ UNCHANGED <<projects, isZipping, isCreatingProject, newProjectName, zipJobs,
                   liveUrls, now, minted>>

\* exitProject
ExitProject ==
    /\ UNCHANGED capVars
    /\ activeProjectId' = NullId
    /\ lastOp' = [op |-> "exitProject"]
    /\ UNCHANGED <<projects, currentView, selectedGalleryIds, isZipping,
                   isCreatingProject, newProjectName, zipJobs,
                   liveUrls, now, minted>>

\* setCurrentView(view), from the sidebar and the empty gallery
SetCurrentView(view) ==
    /\ UNCHANGED capVars
    /\ currentView' = view
    /\ lastOp' = [op |-> "setCurrentView"]
    /\ UNCHANGED <<projects, activeProjectId, selectedGalleryIds, isZipping,
                   isCreatingProject, newProjectName, zipJobs,
                   liveUrls, now, minted>>

----------------------------------------------------------------------------
(* App handlers: the active project's videos *)

\* TimelineEditor's videos prop: activeProject.videos
VideosProp == IF ActiveProject = Null THEN <<>> ELSE ActiveProject.videos

\* handleFiles; files is a FileList or null
HandleFiles(files) ==
    /\ UNCHANGED capVars
    /\ lastOp' = [op |-> "handleFiles", offered |-> Len(files.items),
                  accepted |-> Len(AcceptedFiles(files.items))]
    /\ IF files.null \/ activeProjectId = NullId
       THEN UNCHANGED <<projects, currentView, liveUrls, minted>>
       ELSE LET accepted == AcceptedFiles(files.items) IN
            /\ minted + Len(accepted) <= MaxMinted
            /\ Len(VideosProp) + Len(accepted) <= MaxVideos
            /\ \E newVideos \in NewVideoLists(accepted, minted) :
                 /\ projects' = UpdateActiveProjectVideos(VideosProp \o newVideos)
                 /\ liveUrls' = liveUrls \cup Range([i \in DOMAIN newVideos |-> newVideos[i].url])
            /\ minted' = minted + Len(accepted)
            /\ currentView' = "timeline"
    /\ UNCHANGED <<activeProjectId, selectedGalleryIds, isZipping, isCreatingProject,
                   newProjectName, zipJobs, now>>

\* setVideos={(val) => updateActiveProjectVideos(val)} with an array (moveVideo)
\* or an updater (onDelete): returns when no project is active
SetVideos(updatedVideos) ==
    /\ projects' = IF activeProjectId = NullId THEN projects
                   ELSE UpdateActiveProjectVideos(updatedVideos)
    /\ UNCHANGED now

\* TimelineEditor.moveVideo(index, direction)
MoveVideo(index, direction) ==
    /\ UNCHANGED capVars
    /\ lastOp' = [op |-> "moveVideo", index |-> index, direction |-> direction]
    /\ LET newVideos == MoveVideoList(VideosProp, index, direction)
       IN SetVideos(newVideos)
    /\ UNCHANGED <<activeProjectId, currentView, selectedGalleryIds, isZipping,
                   isCreatingProject, newProjectName, zipJobs,
                   liveUrls, minted>>

\* VideoCard onDelete={() => setVideos(v => v.filter(i => i.id !== video.id))}
DeleteVideo(videoId) ==
    /\ UNCHANGED capVars
    /\ lastOp' = [op |-> "deleteVideo", id |-> videoId]
    /\ SetVideos(DeleteVideoList(VideosProp, videoId))
    /\ UNCHANGED <<activeProjectId, currentView, selectedGalleryIds, isZipping,
                   isCreatingProject, newProjectName, zipJobs,
                   liveUrls, minted>>

\* Mutation of HandleUpdateVideo: a rename also reaches the gallery entries saved
\* under the video's old name (a live reference in place of a snapshot).
HandleUpdateVideoLive(videoId, updates) ==
    /\ UNCHANGED capVars
    /\ lastOp' = [op |-> "handleUpdateVideo", id |-> videoId]
    /\ projects' =
         [i \in DOMAIN projects |->
            IF projects[i].id # activeProjectId THEN projects[i]
            ELSE LET p == projects[i]
                     oldNames == {p.videos[k].name : k \in {k \in DOMAIN p.videos :
                                                              p.videos[k].id = videoId}}
                     Renamed(item) ==
                         IF "name" \in DOMAIN updates /\ item.videoName \in oldNames
                         THEN [item EXCEPT !.videoName = updates.name]
                         ELSE item
                 IN [id |-> p.id, name |-> p.name, createdAt |-> p.createdAt,
                     lastModified |-> DateNow,
                     videos |-> UpdateVideoList(p.videos, videoId, updates),
                     galleryItems |-> [k \in DOMAIN p.galleryItems |->
                                          Renamed(p.galleryItems[k])]]]
    /\ UNCHANGED <<activeProjectId, currentView, selectedGalleryIds, isZipping,
                   isCreatingProject, newProjectName, zipJobs, liveUrls, now, minted>>

\* handleUpdateVideo(videoId, updates); handleRenameVideo passes { name: newName }
HandleUpdateVideo(videoId, updates) ==
    /\ UNCHANGED capVars
    /\ lastOp' = [op |-> "handleUpdateVideo", id |-> videoId]
    /\ SetVideos(UpdateVideoList(VideosProp, videoId, updates))
    /\ UNCHANGED <<activeProjectId, currentView, selectedGalleryIds, isZipping,
                   isCreatingProject, newProjectName, zipJobs,
                   liveUrls, minted>>

----------------------------------------------------------------------------
(* App handlers: the active project's gallery and the selection *)

GalleryProp == IF ActiveProject = Null THEN <<>> ELSE ActiveProject.galleryItems

\* addToGallery(src, type, videoName)
AddToGallery(src, type, videoName) ==
    /\ UNCHANGED capVars
    /\ IF activeProjectId = NullId
       THEN /\ lastOp' = [op |-> "addToGallery", added |-> FALSE]
            /\ UNCHANGED <<projects, activeProjectId, currentView, selectedGalleryIds,
                           isZipping, isCreatingProject, newProjectName, zipJobs,
                           liveUrls, now, minted>>
       ELSE /\ minted < MaxMinted
            /\ Len(GalleryProp) < MaxGallery
            /\ \E id \in RandomUUIDs(minted + 1) :
                   /\ projects' = AddToActiveGallery(
                                      [id |-> id, src |-> src, type |-> type,
                                       videoName |-> videoName, createdAt |-> DateNow])
                   /\ lastOp' = [op |-> "addToGallery", added |-> TRUE]
            /\ minted' = minted + 1
            /\ UNCHANGED <<activeProjectId, currentView, selectedGalleryIds, isZipping,
                           isCreatingProject, newProjectName, zipJobs, liveUrls, now>>

\* removeFromGallery(id)
RemoveFromGallery(id) ==
    /\ UNCHANGED capVars
    /\ lastOp' = [op |-> "removeFromGallery", id |-> id,
                  wasSelected |-> id \in selectedGalleryIds]
    /\ IF activeProjectId = NullId
       THEN UNCHANGED <<projects, selectedGalleryIds>>
       ELSE /\ projects' = RemoveFromActiveGallery(id)
            /\ selectedGalleryIds' = selectedGalleryIds \ {id}
    /\ UNCHANGED <<activeProjectId, currentView, isZipping, isCreatingProject,
                   newProjectName, zipJobs, liveUrls, now, minted>>

\* toggleSelection(id)
ToggleSelection(id) ==
    /\ UNCHANGED capVars
    /\ selectedGalleryIds' = IF id \in selectedGalleryIds
                             THEN selectedGalleryIds \ {id}
                             ELSE selectedGalleryIds \cup {id}
    /\ lastOp' = [op |-> "toggleSelection", id |-> id]
    /\ UNCHANGED <<projects, activeProjectId, currentView, isZipping, isCreatingProject,
                   newProjectName, zipJobs, liveUrls, now, minted>>

\* toggleSelectAll
ToggleSelectAll ==
    /\ UNCHANGED capVars
    /\ lastOp' = [op |-> "toggleSelectAll"]
    /\ selectedGalleryIds' =
         IF ActiveProject = Null THEN selectedGalleryIds
         ELSE IF Cardinality(selectedGalleryIds) = Len(ActiveProject.galleryItems)
              THEN {}
              ELSE GalleryIds(ActiveProject)
    /\ UNCHANGED <<projects, activeProjectId, currentView, isZipping, isCreatingProject,
                   newProjectName, zipJobs, liveUrls, now, minted>>

\* deleteSelected; confirmed is the answer to confirm(...)
DeleteSelected(confirmed) ==
    /\ UNCHANGED capVars
    /\ lastOp' = [op |-> "deleteSelected", confirmed |-> confirmed]
    /\ IF ActiveProject # Null /\ confirmed
       THEN /\ projects' = RemoveSelectedFromActiveGallery
            /\ selectedGalleryIds' = {}
       ELSE UNCHANGED <<projects, selectedGalleryIds>>
    /\ UNCHANGED <<activeProjectId, currentView, isZipping, isCreatingProject,
                   newProjectName, zipJobs, liveUrls, now, minted>>

----------------------------------------------------------------------------
(* App handlers: batch export.  downloadBatchZip keeps the selectedGalleryIds and  *)
(* activeProject of the render it was called from across its two awaits; of the   *)
(* project it reads the name and the galleryItems.  The zip object is local to    *)
(* the call and a function of these, so it is computed where it is observed.      *)

\* downloadBatchZip up to `await import('jszip')`
DownloadBatchZip ==
    /\ UNCHANGED capVars
    /\ IF Cardinality(selectedGalleryIds) = 0 \/ ActiveProject = Null
       THEN /\ lastOp' = [op |-> "downloadBatchZip", started |-> FALSE]
            /\ UNCHANGED <<projects, activeProjectId, currentView, selectedGalleryIds,
                           isZipping, isCreatingProject, newProjectName, zipJobs, liveUrls,
                           now, minted>>
       ELSE /\ Len(zipJobs) < MaxJobs
            /\ lastOp' = [op |-> "downloadBatchZip", started |-> TRUE]
            /\ isZipping' = TRUE
            /\ zipJobs' = Append(zipJobs,
                               [pc |-> "import",
                                selectedGalleryIds |-> selectedGalleryIds,
                                activeProject |-> [name |-> ActiveProject.name,
                                                   galleryItems |-> ActiveProject.galleryItems]])
            /\ UNCHANGED <<projects, activeProjectId, currentView, selectedGalleryIds,
                           isCreatingProject, newProjectName, liveUrls, now, minted>>

RemoveAt(s, j) == SubSeq(s, 1, j - 1) \o SubSeq(s, j + 1, Len(s))

\* The zip object after the forEach over the selection
BuildZip(job) ==
    [folder |-> ZipFolder(job.activeProject.name),
     files |-> ZipEntries(job.selectedGalleryIds, job.activeProject.galleryItems)]

\* Mutation of ZipImportSettles: a rejected import leaves the function without
\* running finally, so isZipping stays as it is.
ZipImportSettlesWithoutFinally(j, ok) ==
    /\ UNCHANGED capVars
    /\ j \in DOMAIN zipJobs
    /\ zipJobs[j].pc = "import"
    /\ IF ok
       THEN /\ zipJobs' = [zipJobs EXCEPT ![j].pc = "generate"]
            /\ lastOp' = [op |-> "zipImportSettles", ok |-> TRUE, downloaded |-> FALSE]
       ELSE /\ zipJobs' = RemoveAt(zipJobs, j)
            /\ lastOp' = [op |-> "zipImportSettles", ok |-> FALSE, downloaded |-> FALSE]
    /\ UNCHANGED <<projects, activeProjectId, currentView, selectedGalleryIds, isZipping,
                   isCreatingProject, newProjectName, liveUrls, now, minted>>

\* The import settles: on success the entries are added and generateAsync starts;
\* on failure catch and finally run.
ZipImportSettles(j, ok) ==
    /\ UNCHANGED capVars
    /\ j \in DOMAIN zipJobs
    /\ zipJobs[j].pc = "import"
    /\ IF ok
       THEN /\ zipJobs' = [zipJobs EXCEPT ![j].pc = "generate"]
            /\ lastOp' = [op |-> "zipImportSettles", ok |-> TRUE, downloaded |-> FALSE]
            /\ UNCHANGED isZipping
       ELSE /\ zipJobs' = RemoveAt(zipJobs, j)
            /\ lastOp' = [op |-> "zipImportSettles", ok |-> FALSE, downloaded |-> FALSE]
            /\ isZipping' = FALSE
    /\ UNCHANGED <<projects, activeProjectId, currentView, selectedGalleryIds,
                   isCreatingProject, newProjectName, liveUrls, now, minted>>

\* Mutation of ZipGenerateSettles: link.click() runs whether or not
\* generateAsync rejected.
ZipGenerateSettlesOffersAnyway(j, ok) ==
    /\ UNCHANGED capVars
    /\ j \in DOMAIN zipJobs
    /\ zipJobs[j].pc = "generate"
    /\ lastOp' = [op |-> "zipGenerateSettles", ok |-> ok, downloaded |-> TRUE]
    /\ zipJobs' = RemoveAt(zipJobs, j)
    /\ isZipping' = FALSE
    /\ UNCHANGED <<projects, activeProjectId, currentView, selectedGalleryIds,
                   isCreatingProject, newProjectName, liveUrls, now, minted>>

\* generateAsync settles: on success the blob holding BuildZip(zipJobs[j]) is
\* downloaded under DownloadName(zipJobs[j].activeProject.name) (link.click(),
\* recorded as downloaded); on failure catch runs and nothing is downloaded;
\* finally runs either way.
ZipGenerateSettles(j, ok) ==
    /\ UNCHANGED capVars
    /\ j \in DOMAIN zipJobs
    /\ zipJobs[j].pc = "generate"
    /\ lastOp' = [op |-> "zipGenerateSettles", ok |-> ok, downloaded |-> ok]
    /\ zipJobs' = RemoveAt(zipJobs, j)
    /\ isZipping' = FALSE
    /\ UNCHANGED <<projects, activeProjectId, currentView, selectedGalleryIds,
                   isCreatingProject, newProjectName, liveUrls, now, minted>>

----------------------------------------------------------------------------
(* Frame capture: the timestamps assigned to video.currentTime.  Positions   *)
(* and durations are in hundredths of a second.                              *)

Epsilon == 10     \* 0.1 s

Max(a, b) == IF a >= b THEN a ELSE b

Components == {"VideoCard", "FrameProcessor", "VideoProcessor"}

\* Durations the decoder can report for an imported file.
Durations == (0..MaxDuration) \cup {1000}

\* VideoCard.generateThumbs: extract(0.1)
VideoCardStartTime == Epsilon

\* VideoCard.generateThumbs: extract(Math.max(0, tempVideo.duration - 0.1))
VideoCardEndTime(duration) == Max(0, duration - Epsilon)

\* FrameProcessor.processAutomaticFrames: captureAtTime(0)
FrameProcessorStartTime == 0

\* FrameProcessor.processAutomaticFrames: captureAtTime(Math.max(0, video.duration - 0.1))
FrameProcessorEndTime(duration) == Max(0, duration - Epsilon)

\* Mutation of SafeEndTime: the seek goes to the duration itself.
SafeEndTimeAtDuration(duration) == duration

\* VideoProcessor.seekToEnd: safeEndTime
SafeEndTime(duration) == Max(0, duration - Epsilon)

\* What a decoder does with a source: it signals loadedmetadata and every seeked,
\* it signals loadedmetadata and then no seeked, or it signals nothing.
Decoders == {"ok", "noSeek", "dead"}

\* No frame (null) in a frame slot; a frame is named by the url it was drawn from.
NoFrame == 0

\* FrameProcessor as it mounts on its first videoUrl: the slots empty,
\* isProcessing true (useState(true)), no capture started.
FrameProcessorMounted(decoder) ==
    [videoUrl |-> 1, decoder |-> decoder, metadata |-> FALSE, seeking |-> FALSE,
     inFlight |-> <<>>, runs |-> <<>>,
     isProcessing |-> TRUE, firstFrame |-> NoFrame, lastFrame |-> NoFrame]

\* VideoCard as it mounts: loadingThumbs true, the thumbnails empty, generateThumbs
\* awaiting loadedmetadata of its temporary video.
VideoCardMounted(decoder) ==
    [isMounted |-> TRUE, decoder |-> decoder, pc |-> "metadata", seeking |-> FALSE,
     loadingThumbs |-> TRUE, startFrameImg |-> FALSE, endFrameImg |-> FALSE,
     currentFrameImg |-> FALSE]

\* FrameExtender as mounted: useState(''), useState(null), useState(false),
\* useState(null); handleGenerate not running.  null is <<>>, a string <<s>>.
FrameExtenderMounted ==
    [prompt |-> <<>>, generatedImage |-> <<>>, isLoading |-> FALSE, error |-> <<>>,
     pc |-> "idle", received |-> FALSE, response |-> [candidates |-> <<>>]]

\* TimelineEditor as rendered with a videos prop: moveVideo and the cards of its
\* handlers close over that array until the next render.
TimelineEditorRendered(videos) == [videos |-> videos]

\* The two components on a source that decodes, nothing drawn yet.
ElemIdle ==
    /\ frameProcessor = FrameProcessorMounted("ok")
    /\ videoCard = VideoCardMounted("ok")
    /\ renders = {}
    /\ frameExtender = FrameExtenderMounted
    /\ timelineEditor = TimelineEditorRendered(VideosProp)

CapInit ==
    /\ capDuration \in Durations
    /\ capPc = [c \in Components |-> "metadata"]
    /\ capSeeks = [c \in Components |-> <<>>]
    /\ ElemIdle

\* The capture components of a page on which no video is loaded.
CapIdle ==
    /\ capDuration = 0
    /\ capPc = [c \in Components |-> "metadata"]
    /\ capSeeks = [c \in Components |-> <<>>]
    /\ ElemIdle

\* video.currentTime = time, for the frame named
Seek(c, time, frame) ==
    capSeeks' = [capSeeks EXCEPT ![c] = Append(@, [time |-> time, frame |-> frame])]

\* VideoCard.generateThumbs: loadedmetadata resolves the first await; extract(0.1)
VideoCardLoadedMetadata ==
    /\ UNCHANGED appVars
    /\ UNCHANGED elemVars
    /\ capPc["VideoCard"] = "metadata"
    /\ Seek("VideoCard", VideoCardStartTime, "start")
    /\ capPc' = [capPc EXCEPT !["VideoCard"] = "seekStart"]
    /\ UNCHANGED capDuration

\* VideoCard: onseeked resolves extract(0.1); setStartFrameImg; extract(duration - 0.1)
VideoCardStartSeeked ==
    /\ UNCHANGED appVars
    /\ UNCHANGED elemVars
    /\ capPc["VideoCard"] = "seekStart"
    /\ Seek("VideoCard", VideoCardEndTime(capDuration), "end")
    /\ capPc' = [capPc EXCEPT !["VideoCard"] = "seekEnd"]
    /\ UNCHANGED capDuration

\* VideoCard: onseeked resolves the second extract; setEndFrameImg; finally
VideoCardEndSeeked ==
    /\ UNCHANGED appVars
    /\ UNCHANGED elemVars
    /\ capPc["VideoCard"] = "seekEnd"
    /\ capPc' = [capPc EXCEPT !["VideoCard"] = "done"]
    /\ UNCHANGED <<capDuration, capSeeks>>

\* FrameProcessor.processAutomaticFrames, called by onLoadedMetadata: captureAtTime(0)
FrameProcessorLoadedMetadata ==
    /\ UNCHANGED appVars
    /\ UNCHANGED elemVars
    /\ capPc["FrameProcessor"] = "metadata"
    /\ Seek("FrameProcessor", FrameProcessorStartTime, "start")
    /\ capPc' = [capPc EXCEPT !["FrameProcessor"] = "seekStart"]
    /\ UNCHANGED capDuration

\* FrameProcessor: seeked resolves captureAtTime(0); setFirstFrame; captureAtTime(end)
FrameProcessorStartSeeked ==
    /\ UNCHANGED appVars
    /\ UNCHANGED elemVars
    /\ capPc["FrameProcessor"] = "seekStart"
    /\ Seek("FrameProcessor", FrameProcessorEndTime(capDuration), "end")
    /\ capPc' = [capPc EXCEPT !["FrameProcessor"] = "seekEnd"]
    /\ UNCHANGED capDuration

\* FrameProcessor: seeked resolves the second capture; setLastFrame;
\* video.currentTime = 0; finally
FrameProcessorEndSeeked ==
    /\ UNCHANGED appVars
    /\ UNCHANGED elemVars
    /\ capPc["FrameProcessor"] = "seekEnd"
    /\ Seek("FrameProcessor", 0, "rewind")
    /\ capPc' = [capPc EXCEPT !["FrameProcessor"] = "done"]
    /\ UNCHANGED capDuration

\* VideoProcessor.handleLoadedMetadata: seekToEnd(video)
VideoProcessorLoadedMetadata ==
    /\ UNCHANGED appVars
    /\ UNCHANGED elemVars
    /\ capPc["VideoProcessor"] = "metadata"
    /\ Seek("VideoProcessor", SafeEndTime(capDuration), "end")
    /\ capPc' = [capPc EXCEPT !["VideoProcessor"] = "done"]
    /\ UNCHANGED capDuration

\* VideoProcessor: the skip-forward button, seekToEnd(videoRef.current)
VideoProcessorSeekToEnd ==
    /\ UNCHANGED appVars
    /\ UNCHANGED elemVars
    /\ capPc["VideoProcessor"] = "done"
    /\ Len(capSeeks["VideoProcessor"]) < MaxSeeks
    /\ Seek("VideoProcessor", SafeEndTime(capDuration), "end")
    /\ UNCHANGED <<capDuration, capPc>>

\* VideoProcessor: the skip-back button, seekToStart(videoRef.current)
VideoProcessorSeekToStart ==
    /\ UNCHANGED appVars
    /\ UNCHANGED elemVars
    /\ capPc["VideoProcessor"] = "done"
    /\ Len(capSeeks["VideoProcessor"]) < MaxSeeks
    /\ Seek("VideoProcessor", 0, "rewind")
    /\ UNCHANGED <<capDuration, capPc>>

----------------------------------------------------------------------------
(* What the rendered page lets the user do *)

ModalOpen == isCreatingProject
\* {!activeProjectId && ( ... dashboard ... )}
Dashboard == ~ModalOpen /\ activeProjectId = NullId
\* {activeProjectId && activeProject && ( ... editor ... )}
Editor == ~ModalOpen /\ activeProjectId # NullId /\ ActiveProject # Null
TimelineView == Editor /\ currentView = "timeline"
GalleryView == Editor /\ currentView = "gallery"
\* {activeProject.galleryItems.length > 0 && ( ... batch toolbar ... )}
BatchToolbar == GalleryView /\ Len(ActiveProject.galleryItems) > 0

UICreateProjectClick == Dashboard /\ HandleCreateProjectClick
UISetNewProjectName == ModalOpen /\ \E name \in TypedNames : SetNewProjectName(name)
UICloseCreateModal == ModalOpen /\ CloseCreateModal
\* disabled={!newProjectName.trim()}
UIConfirmCreateProject == ModalOpen /\ Trim(newProjectName) # <<>> /\ ConfirmCreateProject
UIOpenProject == Dashboard /\ \E id \in ProjectIds : OpenProject(id)
UIDeleteProject ==
    Dashboard /\ \E id \in ProjectIds, confirmed \in BOOLEAN : DeleteProject(id, confirmed)
UIExitProject == ~ModalOpen /\ ExitProject
\* onClick={() => activeProjectId && setCurrentView(...)}, disabled={!activeProjectId}
UISetCurrentView ==
    ~ModalOpen /\ activeProjectId # NullId /\ \E v \in {"timeline", "gallery"} : SetCurrentView(v)
UIHandleFiles == TimelineView /\ \E files \in FileLists : HandleFiles(files)
\* disabled={index === 0} and disabled={index === total - 1}
UIMoveVideo ==
    /\ TimelineView
    /\ \E index \in 0..(Len(VideosProp) - 1) :
         \/ index # 0 /\ MoveVideo(index, "left")
         \/ index # Len(VideosProp) - 1 /\ MoveVideo(index, "right")
UIDeleteVideo == TimelineView /\ \E id \in VideoIds(ActiveProject) : DeleteVideo(id)
\* FrameThumbnail onSave: the frame shown for this video, with video.name
UIAddToGallery ==
    /\ TimelineView
    /\ \E i \in DOMAIN VideosProp, type \in SavedTypes :
         AddToGallery(DataUrl(VideosProp[i].url, type), type, VideosProp[i].name)
\* {!isSelected && ( <button onClick={... removeFromGallery(item.id)} )}
UIRemoveFromGallery ==
    /\ GalleryView
    /\ \E id \in GalleryIds(ActiveProject) \ selectedGalleryIds : RemoveFromGallery(id)
UIToggleSelection == GalleryView /\ \E id \in GalleryIds(ActiveProject) : ToggleSelection(id)
UIToggleSelectAll == BatchToolbar /\ ToggleSelectAll
\* disabled={selectedGalleryIds.size === 0}
UIDeleteSelected ==
    /\ BatchToolbar
    /\ selectedGalleryIds # {}
    /\ \E confirmed \in BOOLEAN : DeleteSelected(confirmed)
\* Mutation of UIDownloadBatchZip: the export button is not disabled while an
\* export is running.
UIDownloadBatchZipReentrant ==
    BatchToolbar /\ selectedGalleryIds # {} /\ DownloadBatchZip

\* disabled={selectedGalleryIds.size === 0 || isZipping}
UIDownloadBatchZip ==
    BatchToolbar /\ selectedGalleryIds # {} /\ ~isZipping /\ DownloadBatchZip
\* The awaits of downloadBatchZip settle whatever the page shows.
ZipSettles ==
    \E j \in DOMAIN zipJobs, ok \in BOOLEAN :
        ZipImportSettles(j, ok) \/ ZipGenerateSettles(j, ok)

\* The wall clock advances by a millisecond.
Tick ==
    /\ UNCHANGED capVars
    /\ now < MaxTime
    /\ now' = now + 1
    /\ UNCHANGED <<projects, activeProjectId, currentView, selectedGalleryIds, isZipping,
                   isCreatingProject, newProjectName, zipJobs, liveUrls, minted, lastOp>>

\* The user's actions on the page, export aside
UserNext ==
    \/ UICreateProjectClick
    \/ UISetNewProjectName
    \/ UICloseCreateModal
    \/ UIConfirmCreateProject
    \/ UIOpenProject
    \/ UIDeleteProject
    \/ UIExitProject
    \/ UISetCurrentView
    \/ UIHandleFiles
    \/ UIMoveVideo
    \/ UIDeleteVideo
    \/ UIAddToGallery
    \/ UIRemoveFromGallery
    \/ UIToggleSelection
    \/ UIToggleSelectAll
    \/ UIDeleteSelected

ExportNext ==
    \/ UIDownloadBatchZip
    \/ ZipSettles

\* The page.  No handler reads a timestamp it wrote, so the clock stands still here.
Next == UserNext \/ ExportNext

\* The page as it loads
Init == AppInit /\ CapIdle

Spec == Init /\ [][Next]_vars

----------------------------------------------------------------------------
(* The page with the controls it withholds offered *)

\* The move buttons at the two ends of the timeline (disabled on the page)
OffPageMoveVideo ==
    /\ TimelineView
    /\ Len(VideosProp) > 0
    /\ \/ MoveVideo(0, "left")
       \/ MoveVideo(Len(VideosProp) - 1, "right")

\* The rename field and the crop modal of a video card (never shown on the page)
OffPageUpdateVideo ==
    /\ TimelineView
    /\ \E id \in VideoIds(ActiveProject), updates \in VideoUpdates :
         HandleUpdateVideo(id, updates)

\* The remove button of a selected gallery item (not rendered on the page)
OffPageRemoveFromGallery ==
    /\ GalleryView
    /\ \E id \in GalleryIds(ActiveProject) \cap selectedGalleryIds : RemoveFromGallery(id)

\* deleteProject while a project is open (the dashboard is not rendered then)
OffPageDeleteProject ==
    /\ Editor
    /\ \E id \in ProjectIds, confirmed \in BOOLEAN : DeleteProject(id, confirmed)

NextHandlers ==
    \/ UserNext
    \/ OffPageMoveVideo
    \/ OffPageUpdateVideo
    \/ OffPageRemoveFromGallery
    \/ OffPageDeleteProject

SpecHandlers == Init /\ [][NextHandlers]_vars

\* The confirm button of the creation modal while the name is blank (disabled on
\* the page)
OffPageConfirmCreateProject ==
    /\ ModalOpen
    /\ Trim(newProjectName) = <<>>
    /\ ConfirmCreateProject

\* The page with that button offered.
NextProjects ==
    \/ UserNext
    \/ OffPageConfirmCreateProject

SpecProjects == Init /\ [][NextProjects]_vars

\* The page with the wall clock running, export aside
NextClock == UserNext \/ Tick

SpecClock == Init /\ [][NextClock]_vars

\* One editing session: a project is created and worked on without leaving the
\* editor, the withheld controls of the editor offered, export included.
NextEditor ==
    \/ UICreateProjectClick
    \/ UIConfirmCreateProject
    \/ UISetCurrentView
    \/ UIHandleFiles
    \/ UIMoveVideo
    \/ UIDeleteVideo
    \/ UIAddToGallery
    \/ UIRemoveFromGallery
    \/ UIToggleSelection
    \/ UIToggleSelectAll
    \/ UIDeleteSelected
    \/ OffPageMoveVideo
    \/ OffPageUpdateVideo
    \/ OffPageRemoveFromGallery
    \/ ExportNext

SpecEditor == Init /\ [][NextEditor]_vars

\* A project just created and open in the editor: the state confirmCreateProject
\* leaves, its UUID call not counted in minted.
EditorInit ==
    /\ projects = <<[id |-> RandomUUID(0), name |-> DefaultProjectName(0),
                     createdAt |-> 0, lastModified |-> 0,
                     videos |-> <<>>, galleryItems |-> <<>>]>>
    /\ activeProjectId = RandomUUID(0)
    /\ currentView = "timeline"
    /\ selectedGalleryIds = {}
    /\ isZipping = FALSE
    /\ isCreatingProject = FALSE
    /\ newProjectName = DefaultProjectName(0)
    /\ zipJobs = <<>>
    /\ liveUrls = {}
    /\ now = 0
    /\ minted = 0
    /\ lastOp = [op |-> "confirmCreateProject", created |-> TRUE]

InitEditor == EditorInit /\ CapIdle

\* The file input of the timeline, given the longer imports
UIImportFiles == TimelineView /\ \E files \in ImportLists : HandleFiles(files)

\* A timeline session in that project: imports, reordering (the move buttons of
\* the two ends offered), deletion, rename and crop (offered).
NextTimeline ==
    \/ UIImportFiles
    \/ UIMoveVideo
    \/ OffPageMoveVideo
    \/ UIDeleteVideo
    \/ OffPageUpdateVideo

SpecTimeline == InitEditor /\ [][NextTimeline]_vars

\* A gallery session in that project: frames are saved, selected and removed
\* (the remove button of a selected item offered).
NextGallery ==
    \/ UISetCurrentView
    \/ UIHandleFiles
    \/ UIAddToGallery
    \/ UIRemoveFromGallery
    \/ OffPageRemoveFromGallery
    \/ UIToggleSelection
    \/ UIToggleSelectAll
    \/ UIDeleteSelected

SpecGallery == InitEditor /\ [][NextGallery]_vars

\* The delete button of a card whose video is already gone from the timeline (a
\* click delivered to a card not yet unmounted): any video id returned so far
OffPageDeleteVideo ==
    /\ TimelineView
    /\ \E k \in 1..minted :
         /\ RandomUUID(k) \notin VideoIds(ActiveProject)
         /\ DeleteVideo(RandomUUID(k))

\* The video registry of that project under the clock: imports, reordering (the
\* move buttons of the two ends offered) and deletions, repeated ones included.
NextRegistry ==
    \/ UIHandleFiles
    \/ UIMoveVideo
    \/ OffPageMoveVideo
    \/ UIDeleteVideo
    \/ OffPageDeleteVideo
    \/ Tick

SpecRegistry == InitEditor /\ [][NextRegistry]_vars

----------------------------------------------------------------------------
(* The capture components on a loaded video *)

CapNext ==
    \/ VideoCardLoadedMetadata
    \/ VideoCardStartSeeked
    \/ VideoCardEndSeeked
    \/ FrameProcessorLoadedMetadata
    \/ FrameProcessorStartSeeked
    \/ FrameProcessorEndSeeked
    \/ VideoProcessorLoadedMetadata
    \/ VideoProcessorSeekToEnd
    \/ VideoProcessorSeekToStart

\* The page as it loads, a video of any duration given to the capture components
InitCapture == AppInit /\ CapInit

SpecCapture == InitCapture /\ [][CapNext]_vars

----------------------------------------------------------------------------
(* FrameProcessor and VideoCard on their video elements: the events of the   *)
(* decoder and the code that waits for them.  An event's listeners run in    *)
(* the order they were added, and the continuation of a promise a listener   *)
(* resolves runs when that listener returns, before the next listener.       *)

\* FrameProcessor.captureAtTime(time) called by run: the promise's executor adds
\* its seeked listener and assigns video.currentTime, which starts a seek.
CaptureAtTime(fp, run, frame) ==
    [fp EXCEPT !.inFlight = Append(@, [run |-> run, frame |-> frame]),
               !.seeking = TRUE]

\* The part of processAutomaticFrames that runs when the capture of l resolves:
\* after the first, setFirstFrame and the second captureAtTime; after the second,
\* setLastFrame, video.currentTime = 0 and, in finally, setIsProcessing(false).
\* The frame drawn is the one the element shows, of the current videoUrl.
ProcessAutomaticFramesResumes(fp, l) ==
    IF l.frame = "start"
    THEN CaptureAtTime([fp EXCEPT !.firstFrame = fp.videoUrl,
                                  !.runs[l.run] = "awaitEnd"],
                       l.run, "end")
    ELSE [fp EXCEPT !.lastFrame = fp.videoUrl,
                    !.seeking = TRUE,
                    !.isProcessing = FALSE,
                    !.runs[l.run] = "done"]

\* The seeked event dispatched to the listeners attached when it fired: each
\* onSeeked draws the video on the canvas, removes itself and resolves, and its
\* processAutomaticFrames resumes.  drawn collects the drawImage calls.
RECURSIVE DispatchSeeked(_, _, _)
DispatchSeeked(fp, listeners, drawn) ==
    IF listeners = <<>> THEN [fp |-> fp, renders |-> drawn]
    ELSE LET l == Head(listeners)
             removed == [fp EXCEPT !.inFlight = SelectSeq(@, LAMBDA x : x # l)]
         IN DispatchSeeked(ProcessAutomaticFramesResumes(removed, l),
                           Tail(listeners),
                           drawn \cup {[by |-> "captureAtTime", seeking |-> fp.seeking]})

\* The parent gives FrameProcessor another videoUrl: the effect on [videoUrl]
\* empties the slots and sets isProcessing, and the same video element loads the
\* new src, which abandons a seek in progress without a seeked event.  Listeners
\* and promises of the earlier source stay as they are.
FrameProcessorSetVideoUrl ==
    /\ UNCHANGED <<appVars, capDuration, capPc, capSeeks, frameExtender,
                   timelineEditor, videoCard, renders>>
    /\ frameProcessor.videoUrl < MaxUrls
    /\ \E decoder \in Decoders :
         frameProcessor' = [frameProcessor EXCEPT
                               !.videoUrl = @ + 1, !.decoder = decoder,
                               !.metadata = FALSE, !.seeking = FALSE,
                               !.firstFrame = NoFrame, !.lastFrame = NoFrame,
                               !.isProcessing = TRUE]

\* onLoadedMetadata={processAutomaticFrames}: a run starts and calls
\* captureAtTime(0)
FrameProcessorOnLoadedMetadata ==
    /\ UNCHANGED <<appVars, capDuration, capPc, capSeeks, frameExtender,
                   timelineEditor, videoCard, renders>>
    /\ frameProcessor.decoder \in {"ok", "noSeek"}
    /\ ~frameProcessor.metadata
    /\ LET run == Len(frameProcessor.runs) + 1 IN
         frameProcessor' =
             CaptureAtTime([frameProcessor EXCEPT !.metadata = TRUE,
                                                  !.runs = Append(@, "awaitStart")],
                           run, "start")

\* The element's seek completes: seeked is dispatched
FrameProcessorOnSeeked ==
    /\ UNCHANGED <<appVars, capDuration, capPc, capSeeks, frameExtender,
                   timelineEditor, videoCard>>
    /\ frameProcessor.decoder = "ok"
    /\ frameProcessor.seeking
    /\ LET after == DispatchSeeked([frameProcessor EXCEPT !.seeking = FALSE],
                                   frameProcessor.inFlight, renders)
       IN /\ frameProcessor' = after.fp
          /\ renders' = after.renders

\* VideoCard.generateThumbs: the temporary video signals loadedmetadata; unmounted
\* the function returns (finally sets nothing), mounted it calls extract(0.1)
VideoCardOnLoadedMetadata ==
    /\ UNCHANGED <<appVars, capDuration, capPc, capSeeks, frameExtender,
                   timelineEditor, frameProcessor, renders>>
    /\ videoCard.decoder \in {"ok", "noSeek"}
    /\ videoCard.pc = "metadata"
    /\ videoCard' = [videoCard EXCEPT
                        !.pc = IF videoCard.isMounted THEN "seekStart" ELSE "done"]

\* Mutation of VideoCardOnSeeked: a frame captured for the card is also written
\* to the gallery of the project that is active when the capture completes.
VideoCardOnSeekedSaves ==
    /\ UNCHANGED <<capDuration, capPc, capSeeks, frameExtender,
                   timelineEditor, frameProcessor>>
    /\ videoCard.decoder = "ok"
    /\ videoCard.pc \in {"seekStart", "seekEnd"}
    /\ renders' = renders \cup {[by |-> "extract", seeking |-> FALSE]}
    /\ videoCard' =
         IF videoCard.pc = "seekStart"
         THEN [videoCard EXCEPT !.startFrameImg = videoCard.isMounted,
                                !.pc = "seekEnd"]
         ELSE [videoCard EXCEPT !.endFrameImg = videoCard.isMounted,
                                !.loadingThumbs = IF videoCard.isMounted THEN FALSE ELSE @,
                                !.pc = "done"]
    /\ projects' = AddToActiveGallery([id |-> RandomUUID(1),
                                       src |-> DataUrl(<<"blob:", 1>>, "inicio"),
                                       type |-> "inicio", videoName |-> VideoFileA.name,
                                       createdAt |-> DateNow])
    /\ UNCHANGED <<activeProjectId, currentView, selectedGalleryIds, isZipping,
                   isCreatingProject, newProjectName, zipJobs, liveUrls, now, minted,
                   lastOp>>

\* VideoCard.generateThumbs: onseeked of the temporary video draws and resolves;
\* after the first frame extract(end) is called, after the last finally runs
\* (setLoadingThumbs(false) if mounted).  State set after the unmount is dropped.
VideoCardOnSeeked ==
    /\ UNCHANGED <<appVars, capDuration, capPc, capSeeks, frameExtender,
                   timelineEditor, frameProcessor>>
    /\ videoCard.decoder = "ok"
    /\ videoCard.pc \in {"seekStart", "seekEnd"}
    /\ renders' = renders \cup {[by |-> "extract", seeking |-> FALSE]}
    /\ videoCard' =
         IF videoCard.pc = "seekStart"
         THEN [videoCard EXCEPT !.startFrameImg = videoCard.isMounted,
                                !.pc = "seekEnd"]
         ELSE [videoCard EXCEPT !.endFrameImg = videoCard.isMounted,
                                !.loadingThumbs = IF videoCard.isMounted THEN FALSE ELSE @,
                                !.pc = "done"]

\* The card is removed from the timeline: the effect's cleanup sets isMounted
\* false, and the shown video element goes with the card.
VideoCardUnmount ==
    /\ UNCHANGED <<appVars, capDuration, capPc, capSeeks, frameExtender,
                   timelineEditor, frameProcessor, renders>>
    /\ videoCard.isMounted
    /\ videoCard' = [videoCard EXCEPT !.isMounted = FALSE, !.seeking = FALSE]

\* VideoCard.handleSeek: videoRef.current.currentTime = time starts a seek on the
\* shown video, and updateCurrentFrame() draws it in the same call.
VideoCardHandleSeek ==
    /\ UNCHANGED <<appVars, capDuration, capPc, capSeeks, frameExtender,
                   timelineEditor, frameProcessor>>
    /\ videoCard.isMounted
    /\ renders' = renders \cup {[by |-> "updateCurrentFrame", seeking |-> TRUE]}
    /\ videoCard' = [videoCard EXCEPT !.seeking = TRUE, !.currentFrameImg = TRUE]

\* The shown video's seek completes (no listener is attached for it)
VideoCardShownVideoSeeked ==
    /\ UNCHANGED <<appVars, capDuration, capPc, capSeeks, frameExtender,
                   timelineEditor, frameProcessor, renders>>
    /\ videoCard.decoder = "ok"
    /\ videoCard.seeking
    /\ videoCard' = [videoCard EXCEPT !.seeking = FALSE]

\* What the decoder and the promises do
DecoderEvents ==
    \/ FrameProcessorOnLoadedMetadata
    \/ FrameProcessorOnSeeked
    \/ VideoCardOnLoadedMetadata
    \/ VideoCardOnSeeked
    \/ VideoCardShownVideoSeeked

\* What the parent and the user do
DecoderUser ==
    \/ FrameProcessorSetVideoUrl
    \/ VideoCardUnmount
    \/ VideoCardHandleSeek

DecoderNext == DecoderEvents \/ DecoderUser

\* The two components mounted on sources of any kind
InitDecoder ==
    /\ AppInit
    /\ capDuration = 0
    /\ capPc = [c \in Components |-> "metadata"]
    /\ capSeeks = [c \in Components |-> <<>>]
    /\ \E d \in Decoders : frameProcessor = FrameProcessorMounted(d)
    /\ \E d \in Decoders : videoCard = VideoCardMounted(d)
    /\ renders = {}
    /\ frameExtender = FrameExtenderMounted
    /\ timelineEditor = TimelineEditorRendered(VideosProp)

SpecDecoder == InitDecoder /\ [][DecoderNext]_vars

\* An event the decoder is going to signal is signalled in the end, and a
\* continuation that can run does run; the parent and the user owe nothing.
SpecDecoderFair ==
    /\ SpecDecoder
    /\ WF_vars(FrameProcessorOnLoadedMetadata)
    /\ WF_vars(FrameProcessorOnSeeked)
    /\ WF_vars(VideoCardOnLoadedMetadata)
    /\ WF_vars(VideoCardOnSeeked)
    /\ WF_vars(VideoCardShownVideoSeeked)

----------------------------------------------------------------------------
(* A video card on the timeline of an open project: its thumbnail captures   *)
(* run beside the handlers of the page.                                      *)

\* The video of the card followed here: the first one the session imports
CardVideoId == RandomUUID(1)

\* The card is rendered while its video is mapped by the timeline of the editor
\* ({currentView === 'timeline' && <TimelineEditor ...>}, videos.map(...))
CardRendered == TimelineView /\ CardVideoId \in VideoIds(ActiveProject)

\* React unmounts the card once it is no longer rendered: the effect's cleanup
\* runs (isMounted = false); the temporary video and its promises live on.
VideoCardRemoved == ~CardRendered /\ VideoCardUnmount

\* A project just created, open in the editor, one video imported (the state
\* handleFiles leaves), its card mounted on a source of any kind
InitThumbs ==
    /\ projects = <<[id |-> RandomUUID(0), name |-> DefaultProjectName(0),
                     createdAt |-> 0, lastModified |-> 0,
                     videos |-> <<[id |-> CardVideoId, url |-> <<"blob:", 1>>,
                                   name |-> VideoFileA.name, crop |-> NoCrop]>>,
                     galleryItems |-> <<>>]>>
    /\ activeProjectId = RandomUUID(0)
    /\ currentView = "timeline"
    /\ selectedGalleryIds = {}
    /\ isZipping = FALSE
    /\ isCreatingProject = FALSE
    /\ newProjectName = DefaultProjectName(0)
    /\ zipJobs = <<>>
    /\ liveUrls = {<<"blob:", 1>>}
    /\ now = 0
    /\ minted = 1
    /\ lastOp = [op |-> "handleFiles", offered |-> 1, accepted |-> 1]
    /\ capDuration = 0
    /\ capPc = [c \in Components |-> "metadata"]
    /\ capSeeks = [c \in Components |-> <<>>]
    /\ frameProcessor = FrameProcessorMounted("ok")
    /\ \E d \in Decoders : videoCard = VideoCardMounted(d)
    /\ renders = {}
    /\ frameExtender = FrameExtenderMounted
    /\ timelineEditor = TimelineEditorRendered(VideosProp)

\* The editor and the dashboard with that card: the video is deleted, the project
\* left and opened again, frames saved, while the card's captures go on.
NextThumbs ==
    \/ UIHandleFiles
    \/ UIDeleteVideo
    \/ UIAddToGallery
    \/ UISetCurrentView
    \/ UIExitProject
    \/ UIOpenProject
    \/ VideoCardRemoved
    \/ VideoCardOnLoadedMetadata
    \/ VideoCardOnSeeked

SpecThumbs == InitThumbs /\ [][NextThumbs]_vars

----------------------------------------------------------------------------
(* FrameExtender: handleGenerate and the image-generation collaborator        *)

\* What the user types in the textarea
Prompts == {<<>>, <<" ">>, <<"z">>}

\* A JavaScript value that is undefined, or defined with a content
Undefined == <<>>
Defined(x) == <<x>>

\* Parts of a candidate's content: text only, or inlineData with base64 data
TextPart == [inlineData |-> Undefined]
ImagePart(data) == [inlineData |-> Defined(data)]

\* A response of generateContent: candidates is undefined or an array, and a
\* candidate's content.parts is undefined or an array
Candidate(parts) == [parts |-> parts]
Responses ==
    {[candidates |-> Undefined],
     [candidates |-> Defined(<<>>)],
     [candidates |-> Defined(<<Candidate(Undefined)>>)],
     [candidates |-> Defined(<<Candidate(Defined(<<>>))>>)],
     [candidates |-> Defined(<<Candidate(Defined(<<TextPart>>))>>)],
     [candidates |-> Defined(<<Candidate(Defined(<<TextPart, ImagePart("img1")>>))>>)],
     [candidates |-> Defined(<<Candidate(Defined(<<ImagePart("img2"), ImagePart("img1")>>))>>)]}

\* An Error object with its message
JsError(message) == [message |-> message]

\* throw new Error("API Key não encontrada. ...")
ApiKeyMissing == JsError("API Key nao encontrada")
\* throw new Error("O modelo não retornou uma imagem válida. ...")
NoValidImage == JsError("O modelo nao retornou uma imagem valida")
\* response.candidates[0].content on an empty array
TypeErrorUndefined == JsError("Cannot read properties of undefined")
\* What import("@google/genai") rejects with, and process.env without a process
ImportErrors == {JsError("Failed to fetch dynamically imported module")}
ReferenceErrorProcess == JsError("process is not defined")
\* What ai.models.generateContent rejects with: an Error with or without message
RequestErrors == {JsError("request failed"), JsError("")}

\* "Erro desconhecido ao gerar a imagem."
UnknownError == "Erro desconhecido ao gerar a imagem"

\* if (response.candidates && response.candidates[0].content.parts) { for ... }
\* if (!foundImage) throw ...: the image URL set, or the value thrown
ExtractImage(response) ==
    IF response.candidates = Undefined
    THEN [threw |-> TRUE, err |-> NoValidImage, image |-> <<>>]
    ELSE LET candidates == response.candidates[1] IN
         IF candidates = <<>>
         THEN [threw |-> TRUE, err |-> TypeErrorUndefined, image |-> <<>>]
         ELSE LET parts == candidates[1].parts IN
              IF parts = Undefined
              THEN [threw |-> TRUE, err |-> NoValidImage, image |-> <<>>]
              ELSE LET images == SelectSeq(parts[1], LAMBDA part : part.inlineData # Undefined)
                   IN IF images = <<>>
                      THEN [threw |-> TRUE, err |-> NoValidImage, image |-> <<>>]
                      ELSE [threw |-> FALSE, err |-> JsError(""),
                            image |-> <<"data:image/png;base64", images[1].inlineData[1]>>]

\* Mutation of CatchFinally: the message is shown as it comes, without the
\* fallback text.
CatchFinallyNoFallback(fx, err) ==
    [fx EXCEPT !.error = <<err.message>>, !.isLoading = FALSE, !.pc = "idle"]

\* catch (err) { setError(err.message || "Erro desconhecido ...") }
\* finally { setIsLoading(false) }
CatchFinally(fx, err) ==
    [fx EXCEPT !.error = IF err.message # "" THEN <<err.message>> ELSE <<UnknownError>>,
               !.isLoading = FALSE, !.pc = "idle"]

\* onChange={(e) => setPrompt(e.target.value)}
FrameExtenderSetPrompt ==
    /\ UNCHANGED <<appVars, capDuration, capPc, capSeeks, frameProcessor, videoCard, renders,
                   timelineEditor>>
    /\ \E prompt \in Prompts :
         /\ prompt # frameExtender.prompt
         /\ frameExtender' = [frameExtender EXCEPT !.prompt = prompt]

\* handleGenerate up to its first await
HandleGenerate ==
    /\ UNCHANGED <<appVars, capDuration, capPc, capSeeks, frameProcessor, videoCard, renders,
                   timelineEditor>>
    /\ frameExtender' =
         IF Trim(frameExtender.prompt) = <<>> THEN frameExtender
         ELSE [frameExtender EXCEPT !.isLoading = TRUE, !.error = <<>>,
                                    !.generatedImage = <<>>, !.pc = "import",
                                    !.received = FALSE]

\* <button onClick={handleGenerate} disabled={isLoading || !prompt.trim()}>
UIHandleGenerate ==
    /\ ~frameExtender.isLoading
    /\ Trim(frameExtender.prompt) # <<>>
    /\ HandleGenerate

\* await import("@google/genai") settles: rejected, or resolved and then
\* process.env.API_KEY is read (no process, no key, a key) and the request sent
HandleGenerateImportSettles ==
    /\ UNCHANGED <<appVars, capDuration, capPc, capSeeks, frameProcessor, videoCard, renders,
                   timelineEditor>>
    /\ frameExtender.pc = "import"
    /\ \/ \E err \in ImportErrors \cup {ReferenceErrorProcess, ApiKeyMissing} :
            frameExtender' = CatchFinally(frameExtender, err)
       \/ frameExtender' = [frameExtender EXCEPT !.pc = "request"]

\* await ai.models.generateContent(...) settles: rejected, or resolved with a
\* response from which the image is extracted
HandleGenerateRequestSettles ==
    /\ UNCHANGED <<appVars, capDuration, capPc, capSeeks, frameProcessor, videoCard, renders,
                   timelineEditor>>
    /\ frameExtender.pc = "request"
    /\ \/ \E err \in RequestErrors : frameExtender' = CatchFinally(frameExtender, err)
       \/ \E response \in Responses :
            LET got == ExtractImage(response)
                fx == [frameExtender EXCEPT !.received = TRUE, !.response = response]
            IN frameExtender' =
                 IF got.threw THEN CatchFinally(fx, got.err)
                 ELSE [fx EXCEPT !.generatedImage = got.image,
                                 !.isLoading = FALSE, !.pc = "idle"]

\* A project open in the editor with one video imported and its first frame
\* saved (the state handleFiles and addToGallery leave), FrameExtender mounted
InitExtender ==
    /\ projects = <<[id |-> RandomUUID(0), name |-> DefaultProjectName(0),
                     createdAt |-> 0, lastModified |-> 0,
                     videos |-> <<[id |-> RandomUUID(1), url |-> <<"blob:", 1>>,
                                   name |-> VideoFileA.name, crop |-> NoCrop]>>,
                     galleryItems |-> <<[id |-> RandomUUID(2),
                                         src |-> DataUrl(<<"blob:", 1>>, "inicio"),
                                         type |-> "inicio",
                                         videoName |-> VideoFileA.name,
                                         createdAt |-> 0]>>]>>
    /\ activeProjectId = RandomUUID(0)
    /\ currentView = "timeline"
    /\ selectedGalleryIds = {}
    /\ isZipping = FALSE
    /\ isCreatingProject = FALSE
    /\ newProjectName = DefaultProjectName(0)
    /\ zipJobs = <<>>
    /\ liveUrls = {<<"blob:", 1>>}
    /\ now = 0
    /\ minted = 2
    /\ lastOp = [op |-> "addToGallery", added |-> TRUE]
    /\ CapIdle

\* FrameExtender beside that session: the view is switched, the saved frame
\* selected, removed and saved again, while images are requested.
NextExtender ==
    \/ UISetCurrentView
    \/ UIToggleSelection
    \/ UIRemoveFromGallery
    \/ UIAddToGallery
    \/ FrameExtenderSetPrompt
    \/ UIHandleGenerate
    \/ HandleGenerateImportSettles
    \/ HandleGenerateRequestSettles

SpecExtender == InitExtender /\ [][NextExtender]_vars

----------------------------------------------------------------------------
(* The page with the handlers of the editor called while no project is open *)

\* The handlers of the active project's data called on the dashboard (the
\* editor that offers them is not rendered then)
OffPageCallsWithoutProject ==
    /\ activeProjectId = NullId
    /\ \/ \E files \in FileLists : HandleFiles(files)
       \/ MoveVideo(0, "right")
       \/ DeleteVideo(RandomUUID(1))
       \/ \E updates \in VideoUpdates : HandleUpdateVideo(RandomUUID(1), updates)
       \/ AddToGallery(DataUrl(<<"blob:", 1>>, "inicio"), "inicio", VideoFileA.name)
       \/ RemoveFromGallery(RandomUUID(1))
       \/ \E confirmed \in BOOLEAN : DeleteSelected(confirmed)

\* Projects are created, opened and left, their videos and galleries worked on,
\* with these calls and with rename and crop (handleUpdateVideo, which the page
\* never offers) on the videos of the open project
NextOwnership ==
    \/ UICreateProjectClick
    \/ UIConfirmCreateProject
    \/ UIOpenProject
    \/ UIExitProject
    \/ UISetCurrentView
    \/ UIHandleFiles
    \/ UIMoveVideo
    \/ UIDeleteVideo
    \/ UIAddToGallery
    \/ UIRemoveFromGallery
    \/ UIToggleSelection
    \/ UIDeleteSelected
    \/ OffPageUpdateVideo
    \/ OffPageCallsWithoutProject

SpecOwnership == Init /\ [][NextOwnership]_vars

----------------------------------------------------------------------------
(* The dashboard after a gallery session *)

\* A project was created, a video imported, its first frame saved and selected
\* in the gallery, and the project left by exitProject, which keeps the
\* selection.  The UUIDs drawn so far are numbered from 0 down and not counted
\* in minted.
InitSelection ==
    /\ projects = <<[id |-> RandomUUID(0), name |-> DefaultProjectName(0),
                     createdAt |-> 0, lastModified |-> 0,
                     videos |-> <<[id |-> RandomUUID(-1), url |-> <<"blob:", 0>>,
                                   name |-> VideoFileA.name, crop |-> NoCrop]>>,
                     galleryItems |-> <<[id |-> RandomUUID(-2),
                                         src |-> DataUrl(<<"blob:", 0>>, "inicio"),
                                         type |-> "inicio",
                                         videoName |-> VideoFileA.name,
                                         createdAt |-> 0]>>]>>
    /\ activeProjectId = NullId
    /\ currentView = "gallery"
    /\ selectedGalleryIds = {RandomUUID(-2)}
    /\ isZipping = FALSE
    /\ isCreatingProject = FALSE
    /\ newProjectName = DefaultProjectName(0)
    /\ zipJobs = <<>>
    /\ liveUrls = {<<"blob:", 0>>}
    /\ now = 0
    /\ minted = 0
    /\ lastOp = [op |-> "exitProject"]
    /\ CapIdle

\* The page from there: projects are created, opened and left, videos imported,
\* frames saved and selected, one by one and all at once.
NextSelection ==
    \/ UICreateProjectClick
    \/ UIConfirmCreateProject
    \/ UIOpenProject
    \/ UIExitProject
    \/ UISetCurrentView
    \/ UIHandleFiles
    \/ UIAddToGallery
    \/ UIToggleSelection
    \/ UIToggleSelectAll

SpecSelection == InitSelection /\ [][NextSelection]_vars

----------------------------------------------------------------------------
(* Batch export in a gallery session *)

\* The gallery of the open project with its first frame saved: frames are saved
\* and selected, and the selection is exported.
NextExport ==
    \/ UISetCurrentView
    \/ UIAddToGallery
    \/ UIToggleSelection
    \/ UIToggleSelectAll
    \/ UIDownloadBatchZip
    \/ ZipSettles

SpecExport == InitExtender /\ [][NextExport]_vars

\* The promises downloadBatchZip awaits settle in the end: the import of the zip
\* library, then the encoding of the archive.
SpecExportFair == SpecExport /\ WF_vars(ZipSettles)

----------------------------------------------------------------------------
(* The timeline with renders that lag behind the store *)

\* TimelineEditor renders with the videos of the store
TimelineEditorRenders ==
    /\ TimelineView
    /\ timelineEditor.videos # VideosProp
    /\ timelineEditor' = TimelineEditorRendered(VideosProp)
    /\ UNCHANGED <<appVars, capDuration, capPc, capSeeks, frameExtender, frameProcessor,
                   videoCard, renders>>

\* A move button of the last render is clicked (disabled={index === 0},
\* disabled={index === total - 1}): moveVideo swaps in a copy of the videos of
\* that render and setVideos(newVideos) replaces the list of the store.
MoveVideoFromRender ==
    /\ TimelineView
    /\ \E index \in 0..(Len(timelineEditor.videos) - 1), direction \in {"left", "right"} :
         /\ direction = "left" => index # 0
         /\ direction = "right" => index # Len(timelineEditor.videos) - 1
         /\ lastOp' = [op |-> "moveVideo", index |-> index, direction |-> direction]
         /\ SetVideos(MoveVideoList(timelineEditor.videos, index, direction))
    /\ UNCHANGED <<activeProjectId, currentView, selectedGalleryIds, isZipping,
                   isCreatingProject, newProjectName, zipJobs, liveUrls, minted>>
    /\ UNCHANGED capVars

\* A timeline session in which an import or a delete can commit before the
\* timeline has rendered again
NextRender ==
    \/ UIHandleFiles
    \/ UIDeleteVideo
    \/ TimelineEditorRenders
    \/ MoveVideoFromRender

SpecRender == InitEditor /\ [][NextRender]_vars

----------------------------------------------------------------------------
(* Properties *)

\* The videos and the gallery of the project with this id in a project list
\* (empty when the list holds no such project)
VideosIn(ps, id) ==
    IF \E i \in DOMAIN ps : ps[i].id = id
    THEN ps[CHOOSE i \in DOMAIN ps : ps[i].id = id].videos
    ELSE <<>>
GalleryIn(ps, id) ==
    IF \E i \in DOMAIN ps : ps[i].id = id
    THEN ps[CHOOSE i \in DOMAIN ps : ps[i].id = id].galleryItems
    ELSE <<>>

\* How many entries of a list carry this id
IdCount(list, id) == Cardinality({i \in DOMAIN list : list[i].id = id})
SameIdMultiset(before, after) ==
    \A id \in {before[i].id : i \in DOMAIN before} \cup {after[i].id : i \in DOMAIN after} :
        IdCount(before, id) = IdCount(after, id)

\* C1: a moveVideo call, for any index of the timeline and either direction,
\* leaves in every project the same multiset of video ids it found (so does any
\* sequence of such calls): the projects are the same in number and order, and
\* each holds every id as many times as before.
C1_MoveVideoKeepsIdMultiset ==
    [][\A index \in 0..(Len(VideosProp) - 1), direction \in {"left", "right"} :
          MoveVideo(index, direction) =>
              /\ Len(projects') = Len(projects)
              /\ \A i \in DOMAIN projects :
                    /\ projects'[i].id = projects[i].id
                    /\ SameIdMultiset(projects[i].videos, projects'[i].videos)]_vars

\* C1 happens: moveVideo has run on a timeline of three videos and the video
\* imported last now stands before the video imported first.
C1_Moved ==
    /\ lastOp.op = "moveVideo"
    /\ Len(VideosProp) = 3
    /\ VideosProp[1].id[2] > VideosProp[3].id[2]

\* C2: a step that changes the videos or the galleryItems of a project sets the
\* project's lastModified to a value strictly greater than the one it had.  Read
\* in the claim's favour: asked only of steps taken when the clock has advanced
\* past that value, so that a fresh Date.now() would be strictly greater.
C2_MutationRaisesLastModified ==
    [][\A i \in DOMAIN projects, j \in DOMAIN projects' :
          ( /\ projects[i].id = projects'[j].id
            /\ \/ projects[i].videos # projects'[j].videos
               \/ projects[i].galleryItems # projects'[j].galleryItems
            /\ now > projects[i].lastModified )
          => projects'[j].lastModified > projects[i].lastModified]_vars

\* C3: every object URL handleFiles created and nothing revoked is the url of a
\* VideoItem that still exists in some project.
C3_UrlsOfDestroyedVideosRevoked == liveUrls \subseteq AllVideoUrls

\* C4: an export started with N ids selected holds, once its files are written,
\* exactly N files (N calls of folder.file under pairwise distinct names).
C4_ExportHoldsOneFilePerSelectedId ==
    \A j \in DOMAIN zipJobs :
        zipJobs[j].pc = "generate" =>
            Cardinality(BuildZip(zipJobs[j]).files)
                = Cardinality(zipJobs[j].selectedGalleryIds)

\* C5: every selected id is the id of a gallery entry that exists (ids enter the
\* selection only as ids of existing entries, so an id of no entry is the id of a
\* deleted one).
C5_SelectionHoldsNoDeletedEntry == selectedGalleryIds \subseteq AllGalleryIds

\* C6: removeFromGallery(id) of one of k selected entries of the active gallery
\* removes that entry alone from galleryItems (the others keep their order) and
\* that id alone from the selection, and an export of the state it leaves writes
\* one file per remaining selected entry, k - 1 files.
C6_RemoveFromGalleryLeavesTheRestExportable ==
    [][\A id \in GalleryIds(ActiveProject) \cap selectedGalleryIds :
          ( /\ selectedGalleryIds \subseteq GalleryIds(ActiveProject)
            /\ RemoveFromGallery(id) )
          => /\ GalleryIn(projects', activeProjectId)
                  = SelectSeq(GalleryProp, LAMBDA item : item.id # id)
             /\ selectedGalleryIds' = selectedGalleryIds \ {id}
             /\ Cardinality(ZipEntries(selectedGalleryIds',
                                       GalleryIn(projects', activeProjectId)))
                  = Cardinality(selectedGalleryIds) - 1]_vars

\* C7: handleFiles with an active project leaves the videos it found in place and
\* appends one VideoItem per file of a video type, in the order of the input,
\* each under the file's name and a fresh id; the other files add nothing.
C7_HandleFilesAppendsVideoFiles ==
    [][\A files \in ImportLists :
          (activeProjectId # NullId /\ HandleFiles(files)) =>
              LET before == VideosProp
                  after == VideosIn(projects', activeProjectId)
                  videoFiles == SelectSeq(files.items, LAMBDA f : f.type[1] = "video")
              IN /\ Len(after) = Len(before) + Len(videoFiles)
                 /\ \A i \in DOMAIN before : after[i] = before[i]
                 /\ \A k \in DOMAIN videoFiles :
                       /\ after[Len(before) + k].name = videoFiles[k].name
                       /\ IdCount(after, after[Len(before) + k].id) = 1]_vars

\* C7 happens: three files were offered to a timeline holding one video, two of
\* them were accepted, and the two stand after that video in the input's order.
C7_MixedImportAppended ==
    /\ lastOp = [op |-> "handleFiles", offered |-> 3, accepted |-> 2]
    /\ Len(VideosProp) = 3
    /\ VideosProp[1].id[2] < VideosProp[2].id[2]
    /\ VideosProp[2].name = VideoFileA.name
    /\ VideosProp[3].name = VideoFileB.name

\* The seeks a component logged for the last frame
EndSeeks(c) == {capSeeks[c][k].time : k \in {k \in DOMAIN capSeeks[c] :
                                              capSeeks[c][k].frame = "end"}}

\* C8 as stated: every last-frame request is duration - 0.1, is not the duration,
\* and lies in [0, duration).
C8_LastFrameAtDurationMinusEpsilon ==
    \A c \in Components : \A t \in EndSeeks(c) :
        /\ t = capDuration - Epsilon
        /\ t # capDuration
        /\ 0 <= t /\ t < capDuration

\* C8 amended: every last-frame request is duration - 0.1 when the duration is at
\* least 0.1 and 0 when it is shorter; it is never the duration of a video that
\* has one, and lies in [0, duration) whenever the duration is positive.
C8_LastFrameClampedBelowDuration ==
    \A c \in Components : \A t \in EndSeeks(c) :
        /\ t = IF capDuration >= Epsilon THEN capDuration - Epsilon ELSE 0
        /\ capDuration > 0 => (t # capDuration /\ 0 <= t /\ t < capDuration)

\* C8 happens: each of the three components has requested the last frame of a
\* video of 10.0 s.
C8_LastFrameRequested ==
    /\ capDuration = 1000
    /\ \A c \in Components : EndSeeks(c) # {}

\* C9: a confirmed deleteProject(id) removes the project with that id and no
\* other from the store; the active id becomes none exactly when id was active,
\* and a different active project stays active with every field unchanged.
C9_DeleteProjectLeavesOthers ==
    [][\A id \in ProjectIds :
          DeleteProject(id, TRUE) =>
              /\ projects' = SelectSeq(projects, LAMBDA p : p.id # id)
              /\ activeProjectId' = IF activeProjectId = id THEN NullId
                                    ELSE activeProjectId
              /\ (activeProjectId # id /\ ActiveProject # Null) =>
                    \E j \in DOMAIN projects' : projects'[j] = ActiveProject]_vars

\* C9 happens: a project was deleted while another, holding a video, was active,
\* and that one is still active.
C9_DeletedBesideActive ==
    /\ lastOp.op = "deleteProject"
    /\ lastOp.confirmed
    /\ lastOp.wasActive # NullId
    /\ lastOp.wasActive # lastOp.id
    /\ activeProjectId = lastOp.wasActive
    /\ lastOp.id \notin ProjectIds
    /\ Len(VideosProp) > 0

\* C10: a gallery item found before and after a step (same project, same id) has
\* the same id, src, type, videoName and createdAt after it.
C10_GalleryItemsImmutable ==
    [][\A i \in DOMAIN projects, j \in DOMAIN projects' :
          projects[i].id = projects'[j].id =>
              \A a \in DOMAIN projects[i].galleryItems,
                 b \in DOMAIN projects'[j].galleryItems :
                  projects[i].galleryItems[a].id = projects'[j].galleryItems[b].id
                      => projects'[j].galleryItems[b] = projects[i].galleryItems[a]]_vars

\* C10 happens: a video was renamed after one of its frames was saved, and the
\* gallery item still carries the name the video had then.
C10_RenamedAfterCapture ==
    /\ lastOp.op = "handleUpdateVideo"
    /\ \E v \in DOMAIN VideosProp, g \in DOMAIN GalleryProp :
          /\ GalleryProp[g].src = DataUrl(VideosProp[v].url, GalleryProp[g].type)
          /\ GalleryProp[g].videoName = VideoFileA.name
          /\ VideosProp[v].name # VideoFileA.name

\* C11: under a clock that only advances, every project of the store has
\* lastModified >= createdAt.
C11_LastModifiedNotBeforeCreatedAt ==
    \A i \in DOMAIN projects : projects[i].lastModified >= projects[i].createdAt

\* C11 happens: a project was changed at a later clock value than the one it was
\* created at, and carries the later stamp.
C11_ModifiedAfterCreation ==
    \E i \in DOMAIN projects :
        /\ projects[i].lastModified > projects[i].createdAt
        /\ projects[i].videos # <<>>

\* C12: deleting a video id the active project's timeline does not hold leaves
\* every project as it is, and so does deleting again the id just deleted; the
\* delete itself leaves the project without the id.
C12_DeleteVideoIdempotent ==
    [][\A k \in 1..minted :
          DeleteVideo(RandomUUID(k)) =>
              /\ RandomUUID(k) \notin {v.id : v \in Range(VideosIn(projects', activeProjectId))}
              /\ RandomUUID(k) \notin VideoIds(ActiveProject) => projects' = projects
              /\ (lastOp.op = "deleteVideo" /\ lastOp.id = RandomUUID(k))
                    => projects' = projects]_vars

\* C13: moveVideo(index, direction) away from the two ends exchanges the video at
\* index with its left or right neighbour and leaves every other position as it
\* is; moveVideo(0, "left") and moveVideo(last, "right") leave every project
\* unchanged.
C13_MoveVideoSwapsNeighbours ==
    [][\A index \in 0..(Len(VideosProp) - 1), direction \in {"left", "right"} :
          MoveVideo(index, direction) =>
              LET before == VideosProp
                  after == VideosIn(projects', activeProjectId)
                  last == Len(before) - 1
                  other == IF direction = "left" THEN index - 1 ELSE index + 1
              IN IF (direction = "left" /\ index = 0)
                     \/ (direction = "right" /\ index = last)
                 THEN projects' = projects
                 ELSE /\ Len(after) = Len(before)
                      /\ after[index + 1] = before[other + 1]
                      /\ after[other + 1] = before[index + 1]
                      /\ \A k \in DOMAIN before :
                            k \notin {index + 1, other + 1} => after[k] = before[k]]_vars

\* C14: confirmCreateProject with a name that is not blank adds one project, new
\* to the store and with no videos and no gallery items, makes it the active
\* project and sets the view to timeline, and the projects already there stay as
\* they were, in their order; with a blank name it changes nothing.
C14_ConfirmCreateProjectAddsOne ==
    [][ConfirmCreateProject =>
          IF \A k \in DOMAIN newProjectName : newProjectName[k] \in Whitespace
          THEN UNCHANGED <<projects, activeProjectId, currentView, selectedGalleryIds,
                           isZipping, isCreatingProject, newProjectName, zipJobs,
                           liveUrls>>
          ELSE /\ Len(projects') = Len(projects) + 1
               /\ \E j \in DOMAIN projects' :
                     /\ projects'[j].id \notin ProjectIds
                     /\ projects'[j].name = newProjectName
                     /\ projects'[j].videos = <<>>
                     /\ projects'[j].galleryItems = <<>>
                     /\ activeProjectId' = projects'[j].id
                     /\ [k \in 1..Len(projects) |->
                            projects'[IF k < j THEN k ELSE k + 1]] = projects
               /\ currentView' = "timeline"]_vars

\* C14 happens: a second project was created beside one that holds a video, and
\* the new one, empty, is open on its timeline.
C14_CreatedBesideExisting ==
    /\ lastOp = [op |-> "confirmCreateProject", created |-> TRUE]
    /\ Len(projects) = 2
    /\ \E i \in DOMAIN projects : projects[i].videos # <<>>
    /\ ActiveProject # Null
    /\ ActiveProject.videos = <<>>
    /\ currentView = "timeline"

\* C15: openProject(id) makes id the active project, sets the view to timeline
\* and empties the selection, whatever they were, and leaves the store as it is.
C15_OpenProjectResetsViewAndSelection ==
    [][\A id \in ProjectIds :
          OpenProject(id) =>
              /\ activeProjectId' = id
              /\ currentView' = "timeline"
              /\ selectedGalleryIds' = {}
              /\ projects' = projects]_vars

\* C15 happens: a project was opened from a dashboard reached from the gallery
\* view with an entry selected, and it is on its timeline with nothing selected.
C15_OpenedWithStaleSelection ==
    /\ lastOp.op = "openProject"
    /\ lastOp.view = "gallery"
    /\ lastOp.selected > 0
    /\ ActiveProject # Null
    /\ currentView = "timeline"
    /\ selectedGalleryIds = {}

\* C16: at most one downloadBatchZip is between its start and the settling of its
\* last await, and isZipping is true exactly while one is.
C16_AtMostOneExportInFlight ==
    /\ Len(zipJobs) <= 1
    /\ isZipping <=> (Len(zipJobs) = 1)

\* C16 happens: an export is encoding its archive while the batch toolbar is
\* shown with entries selected, and more calls could be in flight than are.
C16_ExportRunningUnderToolbar ==
    /\ Len(zipJobs) = 1
    /\ Len(zipJobs) < MaxJobs
    /\ zipJobs[1].pc = "generate"
    /\ isZipping
    /\ BatchToolbar
    /\ selectedGalleryIds # {}

\* C17: when the import of the zip library or the encoding of the archive fails,
\* that step triggers no download and leaves the selection and every project as
\* they were; the export changes neither at any of its steps, so what it finds at
\* its failure is what the user left.
C17_FailedExportLeavesStateAndOffersNothing ==
    [][/\ DownloadBatchZip =>
             /\ selectedGalleryIds' = selectedGalleryIds
             /\ projects' = projects
       /\ \A j \in DOMAIN zipJobs :
             /\ ZipImportSettles(j, TRUE) =>
                   /\ selectedGalleryIds' = selectedGalleryIds
                   /\ projects' = projects
             /\ (ZipImportSettles(j, FALSE) \/ ZipGenerateSettles(j, FALSE)) =>
                   /\ ~lastOp'.downloaded
                   /\ selectedGalleryIds' = selectedGalleryIds
                   /\ projects' = projects
                   /\ zipJobs' = RemoveAt(zipJobs, j)]_vars

\* C17 happens: the encoding of an archive has failed, and the entries selected
\* for it are still selected under the batch toolbar.
C17_EncodingFailed ==
    /\ lastOp = [op |-> "zipGenerateSettles", ok |-> FALSE, downloaded |-> FALSE]
    /\ zipJobs = <<>>
    /\ ~isZipping
    /\ BatchToolbar
    /\ selectedGalleryIds # {}

\* C18: on FrameProcessor's video element at most one capture is in flight (a
\* captureAtTime whose promise has not resolved), a change of videoUrl during
\* processAutomaticFrames included.  VideoCard's extract calls run on a temporary
\* element of their own, one after the other.
C18_OneCaptureInFlightPerElement == Len(frameProcessor.inFlight) <= 1

\* C19: no drawImage is made while a seek started for it is still pending: every
\* frame is drawn after the seeked event (extract, captureAtTime, and
\* updateCurrentFrame as handleSeek calls it).
C19_FramesDrawnAfterSeeked == \A r \in renders : ~r.seeking

\* C20: a clip whose decoder never signals loadedmetadata, or never signals
\* seeked, has its automatic extraction end all the same: VideoCard's
\* loadingThumbs and FrameProcessor's isProcessing become false in the end (unless
\* the card is unmounted, or the processor is given a clip that decodes).
C20_ExtractionEndsWithoutDecoder ==
    /\ (videoCard.decoder # "ok" /\ videoCard.isMounted)
          ~> (~videoCard.loadingThumbs \/ ~videoCard.isMounted)
    /\ (frameProcessor.decoder # "ok")
          ~> (~frameProcessor.isProcessing \/ frameProcessor.decoder = "ok")

\* The number of gallery entries held by all the projects of a list
RECURSIVE GalleryTotal(_)
GalleryTotal(ps) ==
    IF ps = <<>> THEN 0 ELSE Len(Head(ps).galleryItems) + GalleryTotal(Tail(ps))

\* C21: once the card of a video is unmounted (its video deleted, or its project
\* left), a step of its thumbnail captures changes no project: not its videos,
\* not its gallery; and a step in which the projects hold more gallery entries
\* than before is a call of addToGallery from a save button.
C21_LateCapturesWriteNothing ==
    [][/\ (~videoCard.isMounted /\ videoCard'.pc # videoCard.pc) => projects' = projects
       /\ GalleryTotal(projects') > GalleryTotal(projects) => UIAddToGallery]_vars

\* C21 witness: the card's video is deleted from every project, the card's last
\* capture has completed after the unmount (its frame was dropped) while the
\* first one had been kept, and the projects hold no gallery entry.
C21_CaptureCompletedAfterDelete ==
    /\ \A i \in DOMAIN projects : CardVideoId \notin VideoIds(projects[i])
    /\ ~videoCard.isMounted
    /\ videoCard.pc = "done"
    /\ videoCard.startFrameImg
    /\ ~videoCard.endFrameImg
    /\ GalleryTotal(projects) = 0

\* A string state of FrameExtender that the page shows ({error && ...},
\* {generatedImage ? ...}): neither null nor empty
Shown(s) == s # <<>> /\ s # <<"">>

\* The first candidate of a response carries a part with inlineData
ResponseHasImage(response) ==
    /\ response.candidates # Undefined
    /\ response.candidates[1] # <<>>
    /\ response.candidates[1][1].parts # Undefined
    /\ \E i \in DOMAIN response.candidates[1][1].parts[1] :
         response.candidates[1][1].parts[1][i].inlineData # Undefined

\* C22: a step that ends handleGenerate leaves isLoading false and exactly one of
\* generatedImage and error shown: the image exactly when a response was
\* received and contains one; and no step of FrameExtender changes the
\* projects, the active project or the selection.
C22_HandleGenerateEndsWithImageOrError ==
    [][/\ (frameExtender.pc # "idle" /\ frameExtender'.pc = "idle") =>
            /\ ~frameExtender'.isLoading
            /\ Shown(frameExtender'.generatedImage) # Shown(frameExtender'.error)
            /\ Shown(frameExtender'.generatedImage) <=>
                 (frameExtender'.received /\ ResponseHasImage(frameExtender'.response))
       /\ frameExtender' # frameExtender =>
            UNCHANGED <<projects, activeProjectId, selectedGalleryIds>>]_vars

\* C22 witness: handleGenerate has ended on a request rejected without a message
\* while the open project holds a selected gallery entry: the fallback text is
\* shown and no image.
C22_EndedOnErrorWithoutMessage ==
    /\ frameExtender.pc = "idle"
    /\ frameExtender.error = <<UnknownError>>
    /\ frameExtender.generatedImage = <<>>
    /\ ~frameExtender.isLoading
    /\ selectedGalleryIds # {}

\* The seeks a component logged for the first frame
StartSeeks(c) == {capSeeks[c][k].time : k \in {k \in DOMAIN capSeeks[c] :
                                                capSeeks[c][k].frame = "start"}}

\* C23: every first-frame request, of VideoCard's thumbnail generation and of
\* FrameProcessor.processAutomaticFrames, is the timestamp 0 + 0.1 s and not 0.
C23_FirstFrameAtEpsilon ==
    \A c \in {"VideoCard", "FrameProcessor"} : \A t \in StartSeeks(c) :
        t = Epsilon /\ t # 0

\* createdAt does not increase from the first entry of a gallery to the last
NewestFirst(galleryItems) ==
    \A i, j \in DOMAIN galleryItems :
        i < j => galleryItems[i].createdAt >= galleryItems[j].createdAt

\* C24: a save (addToGallery on the open project) leaves the gallery as the new
\* item followed by the items it held, in their order; and the gallery of every
\* project, before and after every step, is ordered newest first by createdAt.
C24_GalleryNewestFirst ==
    [][/\ UIAddToGallery =>
            LET before == GalleryIn(projects, activeProjectId)
                after == GalleryIn(projects', activeProjectId)
            IN /\ Len(after) = Len(before) + 1
               /\ Tail(after) = before
               /\ after[1].id \notin {before[i].id : i \in DOMAIN before}
               /\ after[1].createdAt = now
       /\ \A i \in DOMAIN projects : NewestFirst(projects[i].galleryItems)
       /\ \A i \in DOMAIN projects' : NewestFirst(projects'[i].galleryItems)]_vars

\* C24 witness: a gallery holds a frame saved at time 1 in front of one saved at
\* time 0, an entry between them having been removed or not.
C24_LaterSaveInFront ==
    \E i \in DOMAIN projects :
        /\ Len(projects[i].galleryItems) >= 2
        /\ projects[i].galleryItems[1].createdAt = 1
        /\ projects[i].galleryItems[Len(projects[i].galleryItems)].createdAt = 0
        /\ lastOp = [op |-> "addToGallery", added |-> TRUE]

\* The handlers that work on the data of the active project, as lastOp names them
ActiveProjectOps ==
    {"handleFiles", "addToGallery", "removeFromGallery", "deleteSelected",
     "handleUpdateVideo", "moveVideo", "deleteVideo"}

\* C25: a step of handleFiles, addToGallery, removeFromGallery, deleteSelected,
\* handleUpdateVideo, moveVideo or a video delete keeps the store's length and
\* leaves every project whose id is not the active id as it was, in its place;
\* with no project active it changes no project, nor the active id, the view,
\* the selection, the object URLs or the UUIDs drawn.
C25_OnlyTheActiveProjectChanges ==
    [][lastOp'.op \in ActiveProjectOps =>
          /\ Len(projects') = Len(projects)
          /\ \A i \in DOMAIN projects :
                projects[i].id # activeProjectId => projects'[i] = projects[i]
          /\ activeProjectId = NullId =>
                UNCHANGED <<projects, activeProjectId, currentView, selectedGalleryIds,
                            isZipping, isCreatingProject, newProjectName, zipJobs,
                            liveUrls, minted>>]_vars

\* C25 witness: the store holds two projects with a video each, and the import
\* into the second one has just run.
C25_ImportedBesideAnotherProject ==
    /\ Len(projects) = 2
    /\ \A i \in DOMAIN projects : Len(projects[i].videos) = 1
    /\ activeProjectId # NullId
    /\ lastOp.op = "handleFiles"

\* C26: the active project id is none or the id of a project in the store.
C26_ActiveIdIsNoneOrInStore ==
    activeProjectId = NullId \/ activeProjectId \in ProjectIds

\* C26 witness: the project that was open has been deleted, another one stays in
\* the store, and no project is active.
C26_ActiveProjectDeleted ==
    /\ lastOp.op = "deleteProject"
    /\ lastOp.confirmed
    /\ lastOp.wasActive = lastOp.id
    /\ lastOp.id # NullId
    /\ activeProjectId = NullId
    /\ projects # <<>>

\* C27: whenever a project is active, every id in selectedGalleryIds is the id of
\* an entry of that project's galleryItems (so the selection of a project just
\* created, whose gallery is empty, is empty).
C27_SelectionWithinActiveGallery ==
    ActiveProject # Null => selectedGalleryIds \subseteq GalleryIds(ActiveProject)

\* C28: toggleSelectAll on an active project empties the selection when every
\* gallery entry of that project is selected, and otherwise makes the selection
\* exactly the set of ids of that project's galleryItems.
C28_ToggleSelectAllClearsOrSelectsAll ==
    [][(ActiveProject # Null /\ ToggleSelectAll) =>
          selectedGalleryIds' =
              IF GalleryIds(ActiveProject) \subseteq selectedGalleryIds
              THEN {}
              ELSE GalleryIds(ActiveProject)]_vars

\* C29: whenever isZipping is true (a downloadBatchZip has set it), isZipping is
\* false again later, the import and the encoding settling in the end, whether
\* they are fulfilled or rejected.
C29_ZippingEnds == isZipping ~> ~isZipping

\* C29 witness: an export whose encoding was rejected has ended, isZipping is
\* false and the selection it was started with is still there to export again.
C29_ExportEndedOnRejectedEncoding ==
    /\ lastOp = [op |-> "zipGenerateSettles", ok |-> FALSE, downloaded |-> FALSE]
    /\ ~isZipping
    /\ zipJobs = <<>>
    /\ selectedGalleryIds # {}

=============================================================================
